---- MODULE Spec2Model ----
(***************************************************************************)
(* Embedding cascade, relevance scoring, quota flags, vector store, and    *)
(* topic clustering of the ai-news-agent repository (services/             *)
(* embeddings.py, services/semantic_scorer.py, services/vector_store.py,   *)
(* services/topic_clustering.py, agent.py, podcast_agent.py,               *)
(* video_agent.py, web_scraper_agent.py, tasks/embedding_tasks.py,         *)
(* tasks/clustering_tasks.py).                                             *)
(***************************************************************************)
EXTENDS Integers, Sequences, FiniteSets, TLC

VARIABLES
    providers,      \* EmbeddingService._providers: the configured cascade
    api_key,        \* per provider: whether credentials are configured
    api,            \* the remote services: what the next requests will answer
    dimensions,     \* EmbeddingService.dimensions of each module's service singleton
    last,           \* the last completed EmbeddingService call and what it did
    quota,          \* the _quota_exceeded flag of each module
    interest,       \* SemanticScorer._interest_embedding of each module
    site,           \* the last completed call of a scoring / clustering call site
    seen_limited,   \* per module: the providers its calls have seen rate-limited
    index,          \* the ChromaDB collections behind VectorStore
    backend,        \* whether ChromaDB answers
    seen,           \* out/seen.json: the ids of the items already picked
    reply,          \* the last completed call on the vector store and what it returned
    db,             \* the relational tables clustering writes: topic clusters and item rows
    uuids,          \* how many cluster ids uuid4 has handed out
    threads         \* per thread: its position in the interest_embedding property

store_vars == <<index, backend, seen, reply>>
cluster_vars == <<db, uuids, threads>>

vars == <<providers, api_key, api, dimensions, last, quota, interest, site, seen_limited,
          index, backend, seen, reply, db, uuids, threads>>

----------------------------------------------------------------------------
(* Bounds *)

MaxTexts == 3
MaxPre == 1
MaxItems == 2

----------------------------------------------------------------------------
(* Program constants *)

OPENAI_DIMENSIONS == 1536
OPENAI_MAX_TOKENS == 8191
JINA_DIMENSIONS == 1024
STOP_AFTER_ATTEMPT == 3
DEFAULT_BATCH_SIZE == 2048

ProviderNames == {"openai", "jina"}

Dimensions(p) == IF p = "openai" THEN OPENAI_DIMENSIONS ELSE JINA_DIMENSIONS

----------------------------------------------------------------------------
(* Texts: strings as sequences of characters *)


RECURSIVE SeqsUpTo(_, _)
SeqsUpTo(S, n) ==
    IF n = 0 THEN {<<>>}
    ELSE LET shorter == SeqsUpTo(S, n - 1)
         IN  shorter \cup {Append(s, x) : s \in shorter, x \in S}

\* the texts callers pass: "", " ", "a", " b"
Texts == {<<>>, <<" ">>, <<"a">>, <<" ", "b">>}

RECURSIVE LStrip(_)
LStrip(t) == IF t # <<>> /\ Head(t) = " " THEN LStrip(Tail(t)) ELSE t

RECURSIVE RStrip(_)
RStrip(t) ==
    IF t # <<>> /\ t[Len(t)] = " " THEN RStrip(SubSeq(t, 1, Len(t) - 1)) ELSE t

\* str.strip()
Strip(t) == RStrip(LStrip(t))

\* "not text or not text.strip()"
IsBlank(t) == t = <<>> \/ Strip(t) = <<>>

\* tokenizer.encode / tokenizer.decode: one token per character
Encode(t) == [i \in 1..Len(t) |-> <<"tok", t[i]>>]
Decode(toks) == [i \in 1..Len(toks) |-> toks[i][2]]

truncate_text(t, max_tokens) ==
    LET tokens == Encode(t)
    IN  IF Len(tokens) <= max_tokens THEN t
        ELSE Decode(SubSeq(tokens, 1, max_tokens))

----------------------------------------------------------------------------
(* Vectors and errors *)

\* the embedding the model of provider p computes for the text sent to it
Vec(p, t) == [dims |-> Dimensions(p), by |-> p, text |-> t]
EmptyVector == [dims |-> 0, by |-> "none", text |-> <<>>]

NoError == [type |-> "None", msg |-> <<"None">>]
ValueErrorEmpty == [type |-> "ValueError", msg |-> <<"Cannot", "embed", "empty", "text">>]

Failures == {"rate_limit", "transient"}
Outcomes == {"ok"} \cup Failures

\* the exception a failed request raises in the provider
ApiError(p, out) ==
    IF p = "openai"
    THEN IF out = "rate_limit"
         THEN [type |-> "RateLimitError", msg |-> <<"Error", "code:", "429">>]
         ELSE [type |-> "APIConnectionError", msg |-> <<"Connection", "error.">>]
    ELSE IF out = "rate_limit"
         THEN [type |-> "HTTPError", msg |-> <<"429", "Client", "Error:", "Too", "Many", "Requests">>]
         ELSE [type |-> "Timeout", msg |-> <<"Read", "timed", "out.">>]

\* the remote service: it fails the next requests as listed in pre, then
\* answers every request with its steady answer
Scripts == [pre : SeqsUpTo(Failures, MaxPre), steady : Outcomes, shuffled : BOOLEAN]
NextOutcome(s) == IF s.pre # <<>> THEN Head(s.pre) ELSE s.steady
Advance(s) == IF s.pre # <<>> THEN [s EXCEPT !.pre = Tail(s.pre)] ELSE s

----------------------------------------------------------------------------
(* Helpers *)

Min(a, b) == IF a < b THEN a ELSE b
Range(f) == {f[i] : i \in DOMAIN f}
Reverse(q) == [i \in 1..Len(q) |-> q[Len(q) + 1 - i]]

\* the body of the remote answer to a request for `batch`
Respond(p, batch, s) ==
    LET data == [i \in 1..Len(batch) |-> [index |-> i - 1, embedding |-> Vec(p, batch[i])]]
    IN  IF p = "jina" /\ s.shuffled THEN Reverse(data) ELSE data

\* sorted(data["data"], key=lambda x: x["index"])
SortByIndex(data) ==
    [i \in 1..Len(data) |-> CHOOSE r \in Range(data) : r.index = i - 1]

\* what a provider call hands back: a value or an exception, the remote
\* service's state after it and the log of what was done
Ret(ok, value, err, s, log) == [ok |-> ok, value |-> value, err |-> err, s |-> s, log |-> log]

----------------------------------------------------------------------------
(* OpenAIProvider *)

\* the function body of OpenAIProvider.get_embedding, one execution
OpenAI_get_embedding_once(text, s, log) ==
    IF IsBlank(text)
    THEN Ret(FALSE, <<>>, ValueErrorEmpty, s, Append(log, [p |-> "openai", out |-> "empty"]))
    ELSE IF NextOutcome(s) = "ok"
         THEN Ret(TRUE,
                  Respond("openai", <<truncate_text(Strip(text), OPENAI_MAX_TOKENS)>>, s)[1].embedding,
                  NoError, Advance(s), Append(log, [p |-> "openai", out |-> "ok"]))
         ELSE Ret(FALSE, <<>>, ApiError("openai", NextOutcome(s)), Advance(s),
                  Append(log, [p |-> "openai", out |-> NextOutcome(s)]))

\* tenacity: retry=retry_if_exception_type((Exception,)), stop_after_attempt(3), reraise
ShouldRetry(err, attempt) == attempt < STOP_AFTER_ATTEMPT

RECURSIVE OpenAI_get_embedding(_, _, _, _)
\* the retry decorator around an execution that ended as r
OpenAI_get_embedding_retry(r, text, attempt) ==
    IF r.ok \/ ~ShouldRetry(r.err, attempt) THEN r
    ELSE OpenAI_get_embedding(text, r.s, r.log, attempt + 1)

OpenAI_get_embedding(text, s, log, attempt) ==
    OpenAI_get_embedding_retry(OpenAI_get_embedding_once(text, s, log), text, attempt)

\* the function body of OpenAIProvider._call_api, one execution
OpenAI_call_api_once(batch, s, log) ==
    IF NextOutcome(s) = "ok"
    THEN Ret(TRUE, Respond("openai", batch, s), NoError, Advance(s),
             Append(log, [p |-> "openai", out |-> "ok"]))
    ELSE Ret(FALSE, <<>>, ApiError("openai", NextOutcome(s)), Advance(s),
             Append(log, [p |-> "openai", out |-> NextOutcome(s)]))

RECURSIVE OpenAI_call_api(_, _, _, _)
\* the retry decorator around an execution that ended as r
OpenAI_call_api_retry(r, batch, attempt) ==
    IF r.ok \/ ~ShouldRetry(r.err, attempt) THEN r
    ELSE OpenAI_call_api(batch, r.s, r.log, attempt + 1)

OpenAI_call_api(batch, s, log, attempt) ==
    OpenAI_call_api_retry(OpenAI_call_api_once(batch, s, log), batch, attempt)

RECURSIVE ValidFrom(_, _)
ValidFrom(texts, i) ==
    IF i > Len(texts) THEN <<>>
    ELSE IF ~IsBlank(texts[i]) THEN <<i>> \o ValidFrom(texts, i + 1)
         ELSE ValidFrom(texts, i + 1)

\* valid_indices (0-based in the code, 1-based here)
ValidIndices(texts) == ValidFrom(texts, 1)

\* a result that appends the embeddings in arrival order, blind to valid_indices
Scatter_Compact(texts, valid_indices, all_embeddings) ==
    [i \in 1..Len(texts) |->
        IF i <= Len(all_embeddings) THEN all_embeddings[i] ELSE EmptyVector]

\* result = [[] for _ in texts]; for idx, embedding in zip(valid_indices, all_embeddings)
Scatter(texts, valid_indices, all_embeddings) ==
    [i \in 1..Len(texts) |->
        IF \E j \in 1..Min(Len(valid_indices), Len(all_embeddings)) : valid_indices[j] = i
        THEN all_embeddings[CHOOSE j \in 1..Min(Len(valid_indices), Len(all_embeddings)) :
                                valid_indices[j] = i]
        ELSE EmptyVector]

\* processed_texts[i:i + batch_size], i 0-based
Chunk(processed, i, batch_size) ==
    SubSeq(processed, i + 1, Min(i + batch_size, Len(processed)))

\* [item.embedding for item in response.data]
Embeddings(data) == [k \in 1..Len(data) |-> data[k].embedding]

RECURSIVE OpenAI_chunks(_, _, _, _, _, _)
\* one round of the chunk loop, the request for the chunk having ended as r
OpenAI_chunks_step(r, processed, batch_size, i, all_embeddings) ==
    IF ~r.ok THEN r
    ELSE OpenAI_chunks(processed, batch_size, i + batch_size, r.s, r.log,
                       all_embeddings \o Embeddings(r.value))

\* for i in range(0, len(processed_texts), batch_size)
OpenAI_chunks(processed, batch_size, i, s, log, all_embeddings) ==
    IF i >= Len(processed) THEN Ret(TRUE, all_embeddings, NoError, s, log)
    ELSE OpenAI_chunks_step(OpenAI_call_api(Chunk(processed, i, batch_size), s, log, 1),
                            processed, batch_size, i, all_embeddings)

\* processed_texts of OpenAIProvider.batch_embed
OpenAI_processed(texts, valid_indices) ==
    [j \in 1..Len(valid_indices) |->
        truncate_text(Strip(texts[valid_indices[j]]), OPENAI_MAX_TOKENS)]

\* the result list, the chunk loop having ended as r
Placed(r, texts) ==
    IF ~r.ok THEN r
    ELSE Ret(TRUE, Scatter(texts, ValidIndices(texts), r.value), NoError, r.s, r.log)

OpenAI_batch_embed(texts, batch_size, s, log) ==
    IF texts = <<>> THEN Ret(TRUE, <<>>, NoError, s, Append(log, [p |-> "openai", out |-> "local"]))
    ELSE IF ValidIndices(texts) = <<>>
         THEN Ret(TRUE, [i \in 1..Len(texts) |-> EmptyVector], NoError, s,
                  Append(log, [p |-> "openai", out |-> "local"]))
         ELSE Placed(OpenAI_chunks(OpenAI_processed(texts, ValidIndices(texts)),
                                   batch_size, 0, s, log, <<>>), texts)

----------------------------------------------------------------------------
(* JinaProvider *)

\* JinaProvider._call_api: one request, no retry
Jina_call_api(batch, s, log) ==
    IF NextOutcome(s) = "ok"
    THEN Ret(TRUE, Embeddings(SortByIndex(Respond("jina", batch, s))), NoError, Advance(s),
             Append(log, [p |-> "jina", out |-> "ok"]))
    ELSE Ret(FALSE, <<>>, ApiError("jina", NextOutcome(s)), Advance(s),
             Append(log, [p |-> "jina", out |-> NextOutcome(s)]))

\* embeddings[0] of the request that ended as r
First(r) == IF r.ok THEN [r EXCEPT !.value = r.value[1]] ELSE r

Jina_get_embedding(text, s, log) ==
    IF IsBlank(text)
    THEN Ret(FALSE, <<>>, ValueErrorEmpty, s, Append(log, [p |-> "jina", out |-> "empty"]))
    ELSE First(Jina_call_api(<<Strip(text)>>, s, log))

RECURSIVE Jina_chunks(_, _, _, _, _, _)
\* one round of the chunk loop, the request for the chunk having ended as r
Jina_chunks_step(r, processed, batch_size, i, all_embeddings) ==
    IF ~r.ok THEN r
    ELSE Jina_chunks(processed, batch_size, i + batch_size, r.s, r.log,
                     all_embeddings \o r.value)

Jina_chunks(processed, batch_size, i, s, log, all_embeddings) ==
    IF i >= Len(processed) THEN Ret(TRUE, all_embeddings, NoError, s, log)
    ELSE Jina_chunks_step(Jina_call_api(Chunk(processed, i, batch_size), s, log),
                          processed, batch_size, i, all_embeddings)

\* processed_texts of JinaProvider.batch_embed
Jina_processed(texts, valid_indices) ==
    [j \in 1..Len(valid_indices) |-> Strip(texts[valid_indices[j]])]

Jina_batch_embed(texts, batch_size, s, log) ==
    IF texts = <<>> THEN Ret(TRUE, <<>>, NoError, s, Append(log, [p |-> "jina", out |-> "local"]))
    ELSE IF ValidIndices(texts) = <<>>
         THEN Ret(TRUE, [i \in 1..Len(texts) |-> EmptyVector], NoError, s,
                  Append(log, [p |-> "jina", out |-> "local"]))
         ELSE Placed(Jina_chunks(Jina_processed(texts, ValidIndices(texts)),
                                 batch_size, 0, s, log, <<>>), texts)

----------------------------------------------------------------------------
(* EmbeddingService *)

\* what a service call hands back
SvcRet(ok, value, producer, err, a, log) ==
    [ok |-> ok, value |-> value, producer |-> producer, err |-> err, api |-> a, log |-> log]

\* RuntimeError(f"All embedding providers failed. Last error: {last_error}")
AllFailed(last_error) ==
    [type |-> "RuntimeError",
     msg |-> <<"All", "embedding", "providers", "failed.", "Last", "error:">> \o last_error.msg]

\* a cascade that ignores missing credentials
Available_Always(p) == TRUE

\* provider.available
Available(p) == api_key[p]

\* provider.get_embedding(text), dispatched on the provider's class
Provider_get_embedding(p, text, s, log) ==
    IF p = "openai" THEN OpenAI_get_embedding(text, s, log, 1)
    ELSE Jina_get_embedding(text, s, log)

\* provider.batch_embed(texts, batch_size=batch_size)
Provider_batch_embed(p, texts, batch_size, s, log) ==
    IF p = "openai" THEN OpenAI_batch_embed(texts, batch_size, s, log)
    ELSE Jina_batch_embed(texts, batch_size, s, log)

RECURSIVE Svc_get_embedding(_, _, _, _, _)
\* the try/except of get_embedding, the call of provider p having ended as r
Svc_get_embedding_try(r, p, text, i, a) ==
    IF r.ok THEN SvcRet(TRUE, r.value, p, NoError, [a EXCEPT ![p] = r.s], r.log)
    ELSE Svc_get_embedding(text, i + 1, [a EXCEPT ![p] = r.s], r.log, r.err)

\* EmbeddingService.get_embedding: the loop over self._providers from position i
Svc_get_embedding(text, i, a, log, last_error) ==
    IF i > Len(providers) THEN SvcRet(FALSE, <<>>, "none", AllFailed(last_error), a, log)
    ELSE IF ~Available(providers[i]) THEN Svc_get_embedding(text, i + 1, a, log, last_error)
         ELSE Svc_get_embedding_try(
                  Provider_get_embedding(providers[i], text, a[providers[i]], log),
                  providers[i], text, i, a)

RECURSIVE Svc_batch_loop(_, _, _, _, _, _)
\* the try/except of batch_embed, the call of provider p having ended as r
Svc_batch_try(r, p, texts, batch_size, i, a) ==
    IF r.ok THEN SvcRet(TRUE, r.value, p, NoError, [a EXCEPT ![p] = r.s], r.log)
    ELSE Svc_batch_loop(texts, batch_size, i + 1, [a EXCEPT ![p] = r.s], r.log, r.err)

\* EmbeddingService.batch_embed: the loop over self._providers from position i
Svc_batch_loop(texts, batch_size, i, a, log, last_error) ==
    IF i > Len(providers) THEN SvcRet(FALSE, <<>>, "none", AllFailed(last_error), a, log)
    ELSE IF ~Available(providers[i])
         THEN Svc_batch_loop(texts, batch_size, i + 1, a, log, last_error)
         ELSE Svc_batch_try(
                  Provider_batch_embed(providers[i], texts, batch_size, a[providers[i]], log),
                  providers[i], texts, batch_size, i, a)

\* a cascade that reports success instead of raising when every provider failed
Svc_batch_embed_Swallow(texts, batch_size, a, log) ==
    IF texts = <<>> THEN SvcRet(TRUE, <<>>, "none", NoError, a, log)
    ELSE [Svc_batch_loop(texts, batch_size, 1, a, log, NoError) EXCEPT
              !.ok = TRUE, !.err = NoError,
              !.value = [i \in 1..Len(texts) |-> EmptyVector]]

\* EmbeddingService.batch_embed
Svc_batch_embed(texts, batch_size, a, log) ==
    IF texts = <<>> THEN SvcRet(TRUE, <<>>, "none", NoError, a, log)
    ELSE Svc_batch_loop(texts, batch_size, 1, a, log, NoError)

\* a service that keeps the dimensions it was constructed with
DimensionsAfter_Stale(r, d) == d

\* self.dimensions after a service call that returned r
DimensionsAfter(r, d) == IF r.ok /\ r.producer # "none" THEN Dimensions(r.producer) ELSE d

----------------------------------------------------------------------------
(* State *)

\* the modules that own a service singleton; the first four also own a
\* scorer singleton and a _quota_exceeded flag; embedding_tasks owns a scorer
\* and a vector store
ScoringModules == {"agent", "podcast", "video", "web"}
Modules == ScoringModules \cup {"clustering", "embedding_tasks"}
None == [dims |-> -1, by |-> "none", text |-> <<>>]

NoCall == [op |-> "none", texts |-> <<>>, batch_size |-> 0, ok |-> TRUE, value |-> <<>>,
           producer |-> "none", err |-> NoError, log |-> <<>>]
NoSite == [module |-> "none", op |-> "none"]

\* VectorStore.COLLECTIONS: item type -> collection name
COLLECTIONS == [news |-> "news_items", podcast |-> "podcasts", video |-> "videos"]

\* a collection get_or_create_collection has just created: no record, no
\* dimensionality yet
EmptyCollection == [dim |-> 0, recs |-> <<>>]

NoReply == [op |-> "none"]

\* a NULL column
Null == <<>>

\* the tables before any digest was saved
EmptyDB == [digests |-> {}, items |-> <<>>, clusters |-> <<>>]

\* the threads that run an agent in one process, and a thread outside the
\* interest_embedding property
Threads == {"t1", "t2"}
Idle == [pc |-> "idle", got |-> None]

\* provider_names: the non-empty cascades over the registered providers
Cascades == {c \in SeqsUpTo(ProviderNames, Cardinality(ProviderNames)) :
                c # <<>> /\ \A i, j \in 1..Len(c) : i # j => c[i] # c[j]}

Healthy == [pre |-> <<>>, steady |-> "ok", shuffled |-> FALSE]

\* the remote services a deployment can face; a provider that is not in the
\* cascade or has no key is never asked, so its service is left out of the count
Worlds(c, k) ==
    {a \in [ProviderNames -> Scripts] :
        \A p \in ProviderNames :
            /\ (p \notin Range(c) \/ ~k[p]) => a[p] = Healthy
            /\ p = "openai" => ~a[p].shuffled}

\* EmbeddingService.__init__ and the module-level flags and singletons
InitService ==
    /\ providers \in Cascades
    /\ api_key \in {k \in [ProviderNames -> BOOLEAN] :
                        \A p \in ProviderNames : p \notin Range(providers) => ~k[p]}
    /\ api \in Worlds(providers, api_key)
    /\ dimensions = [m \in Modules |-> Dimensions(providers[1])]
    /\ last = NoCall
    /\ quota = [m \in ScoringModules |-> FALSE]
    /\ interest = [m \in ScoringModules |-> None]
    /\ site = NoSite
    /\ seen_limited = [m \in Modules |-> {}]
    /\ index = [c \in Range(COLLECTIONS) |-> EmptyCollection]
    /\ backend = "up"
    /\ seen = {}
    /\ reply = NoReply
    /\ db = EmptyDB
    /\ uuids = 0
    /\ threads = [t \in Threads |-> Idle]

\* the module whose service singleton the direct calls go to
Caller == "agent"

BatchSizes == {1, DEFAULT_BATCH_SIZE}
TextLists == SeqsUpTo(Texts, MaxTexts)

Record(op, texts, batch_size, r) ==
    [op |-> op, texts |-> texts, batch_size |-> batch_size, ok |-> r.ok, value |-> r.value,
     producer |-> r.producer, err |-> r.err, log |-> r.log]

\* a caller invokes EmbeddingService.get_embedding(text)
GetEmbedding(text) ==
    /\ last = NoCall
    /\ \E r \in {Svc_get_embedding(text, 1, api, <<>>, NoError)} :
          /\ last' = Record("get_embedding", <<text>>, 0, r)
          /\ api' = r.api
          /\ dimensions' = [dimensions EXCEPT ![Caller] = DimensionsAfter(r, dimensions[Caller])]
    /\ UNCHANGED <<providers, api_key, quota, interest, site, seen_limited, index, backend, seen, reply, cluster_vars>>

\* a caller invokes EmbeddingService.batch_embed(texts, batch_size)
BatchEmbed(texts, batch_size) ==
    /\ last = NoCall
    /\ \E r \in {Svc_batch_embed(texts, batch_size, api, <<>>)} :
          /\ last' = Record("batch_embed", texts, batch_size, r)
          /\ api' = r.api
          /\ dimensions' = [dimensions EXCEPT ![Caller] = DimensionsAfter(r, dimensions[Caller])]
    /\ UNCHANGED <<providers, api_key, quota, interest, site, seen_limited, index, backend, seen, reply, cluster_vars>>

\* the caller takes the value or the exception of the call that completed
Collect ==
    /\ last # NoCall
    /\ last' = NoCall
    /\ UNCHANGED <<providers, api_key, api, dimensions, quota, interest, site, seen_limited, index, backend, seen, reply, cluster_vars>>

InitEmbed == InitService

NextEmbed ==
    \/ \E text \in Texts : GetEmbedding(text)
    \/ \E texts \in TextLists, batch_size \in BatchSizes : BatchEmbed(texts, batch_size)
    \/ Collect

SpecEmbed == InitEmbed /\ [][NextEmbed]_vars

----------------------------------------------------------------------------
(* Reading the record of a completed call *)

Called == last.op # "none"
Log == last.log

\* position of provider p in the cascade
Pos(p) == CHOOSE i \in 1..Len(providers) : providers[i] = p

\* the number of requests made to the provider of entry i, up to and including i
AttemptNo(i) == Cardinality({j \in 1..i : Log[j].p = Log[i].p})

\* the entries of provider p
EntriesOf(p) == {i \in 1..Len(Log) : Log[i].p = p}

\* provider p was called and its call returned a value
SucceededInCall(p) ==
    /\ EntriesOf(p) # {}
    /\ LET n == CHOOSE i \in EntriesOf(p) : \A j \in EntriesOf(p) : j <= i
       IN  Log[n].out \in {"ok", "local"}

----------------------------------------------------------------------------
(* C1 *)

\* C1: when a request to a provider fails with a rate-limit/quota error, that
\* provider is not asked again within the same embed call.
C1_NoRetryOnRateLimit ==
    Called =>
        \A i, j \in 1..Len(Log) :
            (i < j /\ Log[i].out = "rate_limit") => Log[j].p # Log[i].p

----------------------------------------------------------------------------
(* C3 *)

\* C3: providers are tried strictly in the configured order, a provider without
\* credentials is never called, and the result comes from the first available
\* provider whose call succeeds, after which no further provider is called.
C3_CascadeOrder ==
    Called =>
        /\ \A i \in 1..Len(Log) : Log[i].p \in Range(providers) /\ api_key[Log[i].p]
        /\ \A i, j \in 1..Len(Log) : i < j => Pos(Log[i].p) <= Pos(Log[j].p)
        /\ (last.ok /\ last.producer # "none") =>
              /\ Log # <<>>
              /\ Log[Len(Log)].p = last.producer
              /\ SucceededInCall(last.producer)
              /\ \A q \in Range(providers) :
                    (Pos(q) < Pos(last.producer) /\ api_key[q]) =>
                        (EntriesOf(q) # {} /\ ~SucceededInCall(q))
              /\ \A q \in Range(providers) :
                    Pos(q) > Pos(last.producer) => EntriesOf(q) = {}
              /\ IF last.op = "get_embedding"
                 THEN last.value.by = last.producer
                 ELSE \A k \in 1..Len(last.value) :
                         last.value[k] # EmptyVector => last.value[k].by = last.producer

\* the second provider answered after the first, available one had failed
C3_Witness ==
    /\ Called /\ last.ok
    /\ Len(providers) = 2
    /\ api_key[providers[1]]
    /\ last.producer = providers[2]

----------------------------------------------------------------------------
(* C4 *)

\* C4: on every provider, a request that fails with a transient error is
\* retried, with at most 3 attempts in total on that provider, before the
\* cascade moves on.
C4_TransientRetried ==
    (Called /\ last.op = "get_embedding") =>
        /\ \A i \in 1..Len(Log) : AttemptNo(i) <= STOP_AFTER_ATTEMPT
        /\ \A i \in 1..Len(Log) :
              (Log[i].out = "transient" /\ AttemptNo(i) < STOP_AFTER_ATTEMPT) =>
                  (i < Len(Log) /\ Log[i + 1].p = Log[i].p)

----------------------------------------------------------------------------
(* C5 *)

\* C5: get_embedding and batch_embed (on a non-empty list) end in the
\* all-providers-failed error exactly when no configured provider is both
\* available and successful, and then they return no value.
C5_ExhaustedIffNoneSucceeds ==
    (Called /\ (last.op = "batch_embed" => last.texts # <<>>)) =>
        /\ ~last.ok <=> ~\E p \in Range(providers) : api_key[p] /\ SucceededInCall(p)
        /\ ~last.ok => (last.err.type = "RuntimeError" /\ last.value = <<>>)
        /\ last.ok => last.err = NoError

\* every available provider was asked and failed
C5_Witness ==
    /\ Called /\ ~last.ok
    /\ \E p \in Range(providers) : api_key[p]
    /\ \A p \in Range(providers) : api_key[p] => EntriesOf(p) # {}

----------------------------------------------------------------------------
(* C6 *)

\* C6: embed(t) returns an empty vector exactly when t is empty or
\* whitespace-only, without raising; for every other t a successful call
\* returns a vector of the active provider's dimensionality. (Stated for a
\* cascade in which a provider with credentials answers every request.)
C6_EmptyTextEmptyVector ==
    (/\ Called /\ last.op = "get_embedding"
     /\ \E p \in Range(providers) : api_key[p] /\ api[p] = Healthy) =>
        LET t == last.texts[1]
        IN  /\ IsBlank(t) => (last.ok /\ last.value = EmptyVector)
            /\ (~IsBlank(t) /\ last.ok) =>
                  (last.value # EmptyVector /\ last.value.dims = dimensions[Caller])

----------------------------------------------------------------------------
(* C7 *)

\* C7: a successful batch_embed returns a list of the length of its input in
\* which slot i is the empty vector exactly when texts[i] is blank and is the
\* embedding of texts[i] otherwise, also when the texts go out in several chunks.
C7_BatchIndexCorrespondence ==
    (Called /\ last.op = "batch_embed" /\ last.ok) =>
        /\ Len(last.value) = Len(last.texts)
        /\ \A i \in 1..Len(last.texts) :
              IF IsBlank(last.texts[i])
              THEN last.value[i] = EmptyVector
              ELSE /\ last.value[i] # EmptyVector
                   /\ last.value[i].text = Strip(last.texts[i])
                   /\ last.value[i].by = last.producer

\* a blank text between two different texts that went out in separate chunks
C7_Witness ==
    /\ Called /\ last.op = "batch_embed" /\ last.ok
    /\ last.batch_size = 1
    /\ Len(last.texts) = 3
    /\ IsBlank(last.texts[2])
    /\ ~IsBlank(last.texts[1]) /\ ~IsBlank(last.texts[3])
    /\ Strip(last.texts[1]) # Strip(last.texts[3])

----------------------------------------------------------------------------
(* C8 *)

\* C8: a successful get_embedding or batch_embed leaves the service's
\* dimensions equal to those of the provider that produced the result; a call
\* that fails leaves them unchanged.
C8_ActiveDimensions ==
    [][(last = NoCall /\ last' # NoCall) =>
          IF last'.ok /\ last'.producer # "none"
          THEN dimensions'[Caller] = Dimensions(last'.producer)
          ELSE dimensions'[Caller] = dimensions[Caller]]_vars

\* the fallback provider answered and the active dimensions moved to it
C8_Witness ==
    /\ Called /\ last.ok
    /\ Len(providers) = 2
    /\ last.producer = providers[2]
    /\ dimensions[Caller] = Dimensions(providers[2])
    /\ dimensions[Caller] # Dimensions(providers[1])

----------------------------------------------------------------------------
(* SemanticScorer *)

USE_SEMANTIC_SCORING == TRUE

\* SemanticScorer.DEFAULT_INTERESTS: non-blank phrases
DEFAULT_INTERESTS == << <<"g", "e", "n", "a", "i">>, <<"a", "g", "e", "n", "t", "s">> >>

FailedInterests ==
    [type |-> "ValueError",
     msg |-> <<"Failed", "to", "generate", "embeddings", "for", "interests">>]
ShapeMismatch == [type |-> "ValueError", msg |-> <<"shapes", "not", "aligned">>]

\* what a step of a handler leaves: the exception it raised (NoError if none),
\* the remote services, the request log, the scorer's cache, the service's dimensions
HRet(err, a, log, intr, d) == [err |-> err, a |-> a, log |-> log, intr |-> intr, d |-> d]
Raised(h) == h.err # NoError

\* the averaged, normalised embedding of the interests, batch_embed having returned g
InterestVector(g, d) ==
    IF ~g.ok THEN HRet(g.err, g.api, g.log, None, DimensionsAfter(g, d))
    ELSE IF \A k \in 1..Len(g.value) : g.value[k] = EmptyVector
         THEN HRet(FailedInterests, g.api, g.log, None, DimensionsAfter(g, d))
         ELSE HRet(NoError, g.api, g.log,
                   [dims |-> Dimensions(g.producer), by |-> g.producer,
                    text |-> <<"interests">>],
                   DimensionsAfter(g, d))

\* SemanticScorer.generate_interest_embedding, stored by the interest_embedding property
generate_interest_embedding(a, log, d) ==
    InterestVector(Svc_batch_embed(DEFAULT_INTERESTS, DEFAULT_BATCH_SIZE, a, log), d)

\* SemanticScorer.interest_embedding
interest_embedding(a, log, intr, d) ==
    IF intr = None THEN generate_interest_embedding(a, log, d)
    ELSE HRet(NoError, a, log, intr, d)

\* cosine_similarity(self.interest_embedding, item_embedding), the property
\* having ended as h: np.dot needs equal shapes
cosine_similarity(h, item_embedding) ==
    IF Raised(h) THEN h
    ELSE IF h.intr.dims # item_embedding.dims THEN [h EXCEPT !.err = ShapeMismatch]
         ELSE h

\* SemanticScorer.score_item(item_embedding) after a service call that returned r
score_item_of(r, intr, d) ==
    IF ~r.ok THEN HRet(r.err, r.api, r.log, intr, d)
    ELSE IF r.value = EmptyVector THEN HRet(NoError, r.api, r.log, intr, d)
         ELSE cosine_similarity(interest_embedding(r.api, r.log, intr, d), r.value)

\* embedding_service.get_embedding(text) followed by scorer.score_item(embedding)
embed_then_score(text, a, log, intr, d) ==
    score_item_of(Svc_get_embedding(text, 1, a, log, NoError), intr,
                  DimensionsAfter(Svc_get_embedding(text, 1, a, log, NoError), d))

\* SemanticScorer.score_text(text)
score_text(text, a, log, intr, d) ==
    IF IsBlank(text) THEN HRet(NoError, a, log, intr, d)
    ELSE embed_then_score(text, a, log, intr, d)

----------------------------------------------------------------------------
(* The scoring call sites and their quota flags *)

\* substring test on one word of a message
HasSub(w, sub) == w = sub \/ (w = "generate" /\ sub = "rate")
Contains(msg, sub) == \E i \in 1..Len(msg) : HasSub(msg[i], sub)

\* "429" in error_msg or "quota" in error_msg.lower() or "rate" in error_msg.lower()
IsQuotaMsg(msg) == Contains(msg, "429") \/ Contains(msg, "quota") \/ Contains(msg, "rate")

\* a guard that forgets the flag
QuotaGuard_NoFlag(m) == ~USE_SEMANTIC_SCORING

\* "if not USE_SEMANTIC_SCORING or _quota_exceeded" of module m
QuotaGuard(m) == ~USE_SEMANTIC_SCORING \/ quota[m]

RateLimitedIn(log) == {log[i].p : i \in {j \in 1..Len(log) : log[j].out = "rate_limit"}}

SiteRecord(m, op, texts, scores, h, flag_before) ==
    [module |-> m, op |-> op, texts |-> texts, scores |-> scores, err |-> h.err,
     log |-> h.log, flag_before |-> flag_before]

\* the state a handler of module m leaves when its scoring attempt ended as h
Leave(m, op, texts, scores, h, trips) ==
    /\ site' = SiteRecord(m, op, texts, scores, h, IF m \in ScoringModules THEN quota[m] ELSE FALSE)
    /\ api' = h.a
    /\ dimensions' = [dimensions EXCEPT ![m] = h.d]
    /\ interest' = IF m \in ScoringModules THEN [interest EXCEPT ![m] = h.intr] ELSE interest
    /\ quota' = IF trips /\ Raised(h) /\ IsQuotaMsg(h.err.msg)
                THEN [quota EXCEPT ![m] = TRUE] ELSE quota
    /\ seen_limited' = [seen_limited EXCEPT ![m] = @ \cup RateLimitedIn(h.log)]
    /\ UNCHANGED <<providers, api_key, last, index, backend, seen, reply, cluster_vars>>

\* the keyword path: no service is touched
Untouched(m) == HRet(NoError, api, <<>>, interest[m], dimensions[m])

\* a fallback loop that stops one item short
Keywords_Short(n) == [i \in 1..(n - 1) |-> "keywords"]

\* item["score"] = score_item_keywords(item["title"], item.get("summary", "")), per item
Keywords(n) == [i \in 1..n |-> "keywords"]

\* agent.score_item, podcast_agent.score_item, video_agent.score_video,
\* web_scraper_agent.score_item
ScoreItem(m, raw) ==
    /\ site = NoSite
    /\ \E h \in {IF QuotaGuard(m) THEN Untouched(m)
                 ELSE score_text(Strip(raw), api, <<>>, interest[m], dimensions[m])} :
          Leave(m, "score_item", <<raw>>,
                IF QuotaGuard(m) \/ Raised(h) THEN Keywords(1) ELSE <<"semantic">>,
                h, ~QuotaGuard(m))

\* podcast_agent.score_episode_semantic, video_agent.score_video_semantic
ScoreSemantic(m, raw) ==
    /\ site = NoSite
    /\ \E h \in {IF QuotaGuard(m) THEN Untouched(m)
                 ELSE embed_then_score(Strip(raw), api, <<>>, interest[m], dimensions[m])} :
          Leave(m, "score_semantic", <<raw>>,
                IF QuotaGuard(m) \/ Raised(h) THEN Keywords(1) ELSE <<"semantic">>,
                h, ~QuotaGuard(m))

\* the first non-empty embedding of a batch (every one is scored alike)
FirstScored(b) ==
    [b EXCEPT !.value = IF \A k \in 1..Len(b.value) : b.value[k] = EmptyVector
                        THEN EmptyVector
                        ELSE b.value[CHOOSE k \in 1..Len(b.value) : b.value[k] # EmptyVector]]

\* the try block of agent.score_items_batch, batch_embed having returned b: the
\* embeddings and the state the scoring loop leaves
batch_scored(b, intr, d) ==
    [b |-> b, h |-> score_item_of(FirstScored(b), intr, DimensionsAfter(b, d))]

batch_then_score(texts, a, intr, d) ==
    batch_scored(Svc_batch_embed(texts, DEFAULT_BATCH_SIZE, a, <<>>), intr, d)

\* agent.score_items_batch
ScoreItemsBatch(raws) ==
    /\ site = NoSite
    /\ IF QuotaGuard("agent") \/ raws = <<>>
       THEN \E h \in {Untouched("agent")} :
               Leave("agent", "score_items_batch", raws, Keywords(Len(raws)), h, FALSE)
       ELSE \E t \in {batch_then_score([i \in 1..Len(raws) |-> Strip(raws[i])], api,
                                       interest["agent"], dimensions["agent"])} :
               Leave("agent", "score_items_batch", raws,
                     IF Raised(t.h) THEN Keywords(Len(raws))
                     ELSE [i \in 1..Len(raws) |->
                              IF t.b.value[i] # EmptyVector THEN "semantic" ELSE "keywords"],
                     t.h, TRUE)

\* clustering_tasks.cluster_digest, phase 2: fresh embeddings for the items
\* missing from the index
RegenerateMissing(raws) ==
    /\ site = NoSite
    /\ raws # <<>>
    /\ \E b \in {Svc_batch_embed([i \in 1..Len(raws) |-> Strip(raws[i])],
                                 DEFAULT_BATCH_SIZE, api, <<>>)} :
          Leave("clustering", "regenerate", raws, <<>>,
                HRet(b.err, b.api, b.log, None, DimensionsAfter(b, dimensions["clustering"])),
                FALSE)

\* the caller takes the scores
CollectSite ==
    /\ site # NoSite
    /\ site' = NoSite
    /\ UNCHANGED <<providers, api_key, api, dimensions, last, quota, interest, seen_limited, index, backend, seen, reply, cluster_vars>>

ItemLists == SeqsUpTo(Texts, MaxItems)

\* one process that runs the news agent
InitScore == InitService /\ ~api["jina"].shuffled

NextScore ==
    \/ \E raw \in Texts : ScoreItem("agent", raw)
    \/ \E raws \in ItemLists : ScoreItemsBatch(raws)
    \/ CollectSite

SpecScore == InitScore /\ [][NextScore]_vars

\* one process that runs every agent and the clustering task, against remote
\* services that answer every request the same way
InitProcess ==
    /\ InitService
    /\ \A p \in ProviderNames : api[p].pre = <<>> /\ ~api[p].shuffled

NextProcess ==
    \/ \E m \in ScoringModules, raw \in Texts : ScoreItem(m, raw)
    \/ \E m \in {"podcast", "video"}, raw \in Texts : ScoreSemantic(m, raw)
    \/ \E raws \in ItemLists : ScoreItemsBatch(raws)
    \/ \E raws \in ItemLists : RegenerateMissing(raws)
    \/ CollectSite

SpecProcess == InitProcess /\ [][NextProcess]_vars

----------------------------------------------------------------------------
(* C2 *)

\* cascade [A, B] with keys for both, A answering every request with a
\* rate-limit error and B answering every request
Scenario429 ==
    /\ Len(providers) = 2
    /\ api_key[providers[1]] /\ api_key[providers[2]]
    /\ api[providers[1]] = [pre |-> <<>>, steady |-> "rate_limit", shuffled |-> FALSE]
    /\ api[providers[2]] = Healthy

\* C2: with cascade [A, B], A always rate-limited and B always succeeding, every
\* embed call is served by B without raising, and once a call has seen A
\* rate-limited no later call asks A again.
C2_BreakerSkipsLimitedProvider ==
    [][(Scenario429 /\ site = NoSite /\ site' # NoSite) =>
          /\ site'.err = NoError
          /\ providers[1] \in seen_limited[site'.module] =>
                \A i \in 1..Len(site'.log) : site'.log[i].p # providers[1]]_vars

----------------------------------------------------------------------------
(* C9 *)

\* C9: the quota flag is one-way: once set it is never reset, and from then on
\* score_item and score_items_batch return keyword scores without invoking the
\* embedding service.
C9_QuotaFlagOneWay ==
    [][\A m \in ScoringModules :
          /\ quota[m] => quota'[m]
          /\ (quota[m] /\ site = NoSite /\ site' # NoSite /\ site'.module = m) =>
                /\ site'.log = <<>>
                /\ site'.scores = Keywords(Len(site'.texts))
                /\ api' = api /\ interest' = interest /\ dimensions' = dimensions]_vars

\* a batch was scored by keywords under a set flag although a provider of the
\* cascade would answer by now
C9_Witness ==
    /\ site # NoSite /\ site.module = "agent" /\ site.op = "score_items_batch"
    /\ site.flag_before /\ quota["agent"]
    /\ Len(site.texts) = 2 /\ ~IsBlank(site.texts[1])
    /\ site.scores = Keywords(2)
    /\ \E p \in Range(providers) : api_key[p] /\ NextOutcome(api[p]) = "ok"

----------------------------------------------------------------------------
(* C10 *)

\* C10: the flag is process-wide: once any call site has tripped it, every later
\* attempt in the process to use the cascade (news, podcast, video and web
\* scoring, the clustering task's regeneration) consults it and is skipped.
C10_FlagProcessWide ==
    [][((\E m \in ScoringModules : quota[m]) /\ site = NoSite /\ site' # NoSite) =>
          site'.log = <<>>]_vars

----------------------------------------------------------------------------
(* C11 *)

\* C11: whenever the primary provider answers a scoring call (score_item or
\* score_items_batch) with a rate-limit error, the quota flag of the call site
\* is set when the call returns, whether the fallback provider, once asked,
\* succeeded or failed with a different error.
C11_RateLimitSetsFlag ==
    [][(/\ site = NoSite /\ site' # NoSite
        /\ site'.op \in {"score_item", "score_items_batch"}
        /\ \E i \in 1..Len(site'.log) :
              site'.log[i].p = providers[1] /\ site'.log[i].out = "rate_limit"
        /\ \E i \in 1..Len(site'.log) : site'.log[i].p # providers[1])
          => quota'[site'.module]]_vars

----------------------------------------------------------------------------
(* C12 *)

\* C12: relevance scoring never raises: score_item and score_items_batch return
\* one score per item, and whenever the embedding service or the scorer raised
\* inside the call every item carries its keyword-overlap score.
C12_ScoringNeverRaises ==
    (site # NoSite /\ site.op \in {"score_item", "score_items_batch"}) =>
        /\ Len(site.scores) = Len(site.texts)
        /\ \A i \in 1..Len(site.scores) : site.scores[i] \in {"keywords", "semantic"}
        /\ site.err # NoError =>
              \A i \in 1..Len(site.texts) : site.scores[i] = "keywords"

\* a batch of two items whose embedding request failed in every provider
C12_Witness ==
    /\ site # NoSite /\ site.op = "score_items_batch"
    /\ ~site.flag_before
    /\ site.err.type = "RuntimeError"
    /\ Len(site.texts) = 2 /\ ~IsBlank(site.texts[1])
    /\ site.scores = <<"keywords", "keywords">>

----------------------------------------------------------------------------
(* Vectors with components *)

\* a vector of `dims` floats of which only the first two may differ from zero;
\* similarities are carried in hundredths, rounded towards zero
Vector(dims, xy) == [dims |-> dims, xy |-> xy]

\* the empty list
NoVector == Vector(0, <<0, 0>>)

\* np.dot(a_arr, b_arr)
Dot(a, b) == a[1] * b[1] + a[2] * b[2]

\* the square root of n, n in 0..10000
ISqrt(n) == CHOOSE r \in 0..100 : r * r <= n /\ n < (r + 1) * (r + 1)

\* dot_product / (norm_a * norm_b), in hundredths
Quotient(dot, na, nb) ==
    IF dot >= 0 THEN ISqrt((10000 * dot * dot) \div (na * nb))
    ELSE 0 - ISqrt((10000 * dot * dot) \div (na * nb))

\* cosine_similarity(a, b): a value, or the ValueError np.dot raises on
\* arrays of different length
Cosine(a, b) ==
    IF a.dims # b.dims THEN [raised |-> TRUE, value |-> 0]
    ELSE IF Dot(a.xy, a.xy) = 0 \/ Dot(b.xy, b.xy) = 0 THEN [raised |-> FALSE, value |-> 0]
         ELSE [raised |-> FALSE,
               value |-> Quotient(Dot(a.xy, b.xy), Dot(a.xy, a.xy), Dot(b.xy, b.xy))]

Max(a, b) == IF a > b THEN a ELSE b

\* max(min_score, min(max_score, similarity)) on what cosine_similarity handed back
Clamp(c, min_score, max_score) ==
    IF c.raised THEN c ELSE [c EXCEPT !.value = Max(min_score, Min(max_score, c.value))]

\* SemanticScorer.score_item(item_embedding, min_score, max_score) with
\* self.interest_embedding = intr
ScoreVector(intr, item_embedding, min_score, max_score) ==
    IF item_embedding = NoVector THEN [raised |-> FALSE, value |-> min_score]
    ELSE Clamp(Cosine(intr, item_embedding), min_score, max_score)

\* the largest component of the vectors tried
MaxCoord == 2

\* the vectors the services hand back and callers pass on
Coords == (0 - MaxCoord)..MaxCoord
Vectors == {Vector(d, <<x, y>>) : d \in {OPENAI_DIMENSIONS, JINA_DIMENSIONS},
                                  x \in Coords, y \in Coords}

\* a deployment with both providers configured and answering
InitPlain ==
    /\ InitService
    /\ providers = <<"openai", "jina">>
    /\ api_key = [p \in ProviderNames |-> TRUE]
    /\ api = [p \in ProviderNames |-> Healthy]

\* scorer.score_item(embedding) with the defaults min_score=0.0, max_score=1.0
ScoreItemVector(intr, v) ==
    /\ reply = NoReply
    /\ reply' = [op |-> "score_item", interest |-> intr, embedding |-> v,
                 result |-> ScoreVector(intr, v, 0, 100)]
    /\ UNCHANGED <<providers, api_key, api, dimensions, last, quota, interest, site,
                   seen_limited, index, backend, seen, cluster_vars>>

\* the caller takes the result
CollectReply ==
    /\ reply # NoReply
    /\ reply' = NoReply
    /\ UNCHANGED <<providers, api_key, api, dimensions, last, quota, interest, site,
                   seen_limited, index, backend, seen, cluster_vars>>

NextVector ==
    \/ \E intr \in Vectors, v \in Vectors \cup {NoVector} : ScoreItemVector(intr, v)
    \/ CollectReply

SpecVector == InitPlain /\ [][NextVector]_vars

----------------------------------------------------------------------------
(* C13 *)

\* C13: with the interest vector available, score_item(v) returns a score in
\* [0, 1] for every vector v, and the score is 0 when v is empty or all zeros.
C13_ScoreInUnitRange ==
    reply.op = "score_item" =>
        /\ ~reply.result.raised
        /\ reply.result.value \in 0..100
        /\ (reply.embedding = NoVector \/ reply.embedding.xy = <<0, 0>>) =>
              reply.result.value = 0

----------------------------------------------------------------------------
(* The ChromaDB collections VectorStore calls *)

\* the position a stable ascending sort gives to element i
Rank(keys, i) ==
    1 + Cardinality({j \in 1..Len(keys) :
                        keys[j] < keys[i] \/ (keys[j] = keys[i] /\ j < i)})

\* q in the order of its keys, ascending, equal keys in their order in q
SortedBy(q, keys) ==
    [k \in 1..Len(q) |-> q[CHOOSE i \in 1..Len(q) : Rank(keys, i) = k]]

Take(q, n) == SubSeq(q, 1, Min(n, Len(q)))

\* the exceptions of the client
InvalidDimension == [type |-> "InvalidDimensionException",
                     msg |-> <<"Embedding", "dimension", "does", "not", "match">>]
DuplicateID == [type |-> "DuplicateIDError", msg |-> <<"Expected", "IDs", "to", "be", "unique">>]
Unavailable == [type |-> "ConnectionError", msg |-> <<"Could", "not", "connect">>]

\* what a collection call hands back: the collection after it, rows or an exception
CollRet(ok, coll, rows, err) == [ok |-> ok, coll |-> coll, rows |-> rows, err |-> err]

HasId(recs, id) == \E k \in 1..Len(recs) : recs[k].id = id

\* a write that never looks for the id
Put_Append(recs, rec) == Append(recs, rec)

\* one record written by id: replaced in place, or appended
Put(recs, rec) ==
    IF HasId(recs, rec.id)
    THEN [k \in 1..Len(recs) |-> IF recs[k].id = rec.id THEN rec ELSE recs[k]]
    ELSE Append(recs, rec)

RECURSIVE PutAll(_, _)
PutAll(recs, new) == IF new = <<>> THEN recs ELSE PutAll(Put(recs, Head(new)), Tail(new))

\* an upsert that accepts vectors of any dimensionality
Collection_upsert_Unchecked(coll, b, new) ==
    IF b # "up" THEN CollRet(FALSE, coll, <<>>, Unavailable)
    ELSE CollRet(TRUE, [dim |-> new[1].embedding.dims, recs |-> PutAll(coll.recs, new)],
                 <<>>, NoError)

\* collection.upsert(ids, embeddings, metadatas, documents), new holding one
\* record per id: ids are unique within a call, and every vector has the
\* dimensionality the collection took from its first vector
Collection_upsert(coll, b, new) ==
    IF b # "up" THEN CollRet(FALSE, coll, <<>>, Unavailable)
    ELSE IF \E j, k \in 1..Len(new) : j # k /\ new[j].id = new[k].id
         THEN CollRet(FALSE, coll, <<>>, DuplicateID)
    ELSE IF \E k \in 1..Len(new) :
                new[k].embedding.dims # (IF coll.dim = 0 THEN new[1].embedding.dims ELSE coll.dim)
         THEN CollRet(FALSE, coll, <<>>, InvalidDimension)
    ELSE CollRet(TRUE, [dim |-> new[1].embedding.dims, recs |-> PutAll(coll.recs, new)],
                 <<>>, NoError)

\* the cosine distance of a record, in hundredths
Distance(embedding, rec) == 100 - Cosine(embedding, rec.embedding).value

\* collection.query(query_embeddings=[embedding], n_results=n, include=[...]):
\* the n nearest records with their distances, nearest first
Collection_query(coll, b, embedding, n) ==
    IF b # "up" THEN CollRet(FALSE, coll, <<>>, Unavailable)
    ELSE IF coll.dim # 0 /\ embedding.dims # coll.dim
         THEN CollRet(FALSE, coll, <<>>, InvalidDimension)
    ELSE CollRet(TRUE, coll,
                 Take(SortedBy([k \in 1..Len(coll.recs) |->
                                   [id |-> coll.recs[k].id,
                                    document |-> coll.recs[k].document,
                                    metadata |-> coll.recs[k].metadata,
                                    distance |-> Distance(embedding, coll.recs[k])]],
                               [k \in 1..Len(coll.recs) |-> Distance(embedding, coll.recs[k])]),
                      n),
                 NoError)

\* collection.count()
Collection_count(coll) == Len(coll.recs)

----------------------------------------------------------------------------
(* VectorStore *)

\* list(self.COLLECTIONS.keys())
ItemTypes == <<"news", "podcast", "video">>

\* what a VectorStore call hands back: a value or an exception, the
\* collections, the remote services and the service's dimensions after it
StoreRet(ok, value, err, idx, a, d) ==
    [ok |-> ok, value |-> value, err |-> err, index |-> idx, api |-> a, d |-> d]

\* the components the remote services give to the texts "a" and "b"
Direction(t) == IF t = <<"a">> THEN <<1, 0>> ELSE <<4, 1>>

\* a vector of the service with its components
AsVector(v) == IF v = EmptyVector THEN NoVector ELSE Vector(v.dims, Direction(v.text))

\* the record an upsert writes: meta["item_type"] = item_type, documents=[text[:5000]]
NewRecord(item_id, embedding, metadata, item_type, text) ==
    [id |-> item_id, embedding |-> embedding,
     metadata |-> [meta |-> metadata, item_type |-> item_type], document |-> text]

\* add_item after collection.upsert handed back u
add_item_done(u, item_id, idx, c, a, d) ==
    IF u.ok THEN StoreRet(TRUE, item_id, NoError, [idx EXCEPT ![c] = u.coll], a, d)
    ELSE StoreRet(FALSE, "", u.err, idx, a, d)

\* add_item after self.embedding_service.get_embedding(text) handed back r
add_item_embedded(r, idx, b, d, item_id, text, item_type, metadata) ==
    IF ~r.ok THEN StoreRet(FALSE, "", r.err, idx, r.api, d)
    ELSE add_item_done(
             Collection_upsert(idx[COLLECTIONS[item_type]], b,
                               <<NewRecord(item_id, AsVector(r.value), metadata, item_type, text)>>),
             item_id, idx, COLLECTIONS[item_type], r.api, DimensionsAfter(r, d))

\* VectorStore.add_item(item_id, text, item_type, metadata, embedding);
\* NoVector stands for embedding=None
add_item(idx, b, a, d, item_id, text, item_type, metadata, embedding) ==
    IF b = "down" THEN StoreRet(FALSE, "", Unavailable, idx, a, d)
    ELSE IF embedding = NoVector
         THEN add_item_embedded(Svc_get_embedding(text, 1, a, <<>>, NoError),
                                idx, b, d, item_id, text, item_type, metadata)
         ELSE add_item_done(
                  Collection_upsert(idx[COLLECTIONS[item_type]], b,
                                    <<NewRecord(item_id, embedding, metadata, item_type, text)>>),
                  item_id, idx, COLLECTIONS[item_type], a, d)

\* "embedding" in item and item["embedding"]
HasEmbedding(item) == item.embedding # NoVector

\* texts_to_embed
TextsToEmbed(items) ==
    LET Missing(item) == ~HasEmbedding(item)
        q == SelectSeq(items, Missing)
    IN  [k \in 1..Len(q) |-> q[k].text]

\* for i, embedding in zip(embed_indices, new_embeddings): embeddings[i] = embedding
Filled(items, new_embeddings) ==
    [i \in 1..Len(items) |->
        IF HasEmbedding(items[i]) THEN items[i]
        ELSE [items[i] EXCEPT !.embedding =
                 AsVector(new_embeddings[Cardinality({j \in 1..i : ~HasEmbedding(items[j])})])]]

\* valid_ids, valid_embeddings, valid_metadatas, valid_documents
ValidRecords(items, item_type) ==
    LET q == SelectSeq(items, HasEmbedding)
    IN  [k \in 1..Len(q) |->
            NewRecord(q[k].id, q[k].embedding, q[k].metadata, item_type, q[k].text)]

Ids(recs) == [k \in 1..Len(recs) |-> recs[k].id]

\* add_items_batch after collection.upsert handed back u
add_items_batch_done(u, valid, idx, c, a, d) ==
    IF u.ok THEN StoreRet(TRUE, Ids(valid), NoError, [idx EXCEPT ![c] = u.coll], a, d)
    ELSE StoreRet(FALSE, <<>>, u.err, idx, a, d)

\* add_items_batch from "if valid_ids:" on
add_items_batch_valid(valid, idx, b, c, a, d) ==
    IF valid = <<>> THEN StoreRet(TRUE, <<>>, NoError, idx, a, d)
    ELSE add_items_batch_done(Collection_upsert(idx[c], b, valid), valid, idx, c, a, d)

\* add_items_batch after self.embedding_service.batch_embed(texts_to_embed) handed back r
add_items_batch_embedded(r, items, idx, b, d, item_type) ==
    IF ~r.ok THEN StoreRet(FALSE, <<>>, r.err, idx, r.api, d)
    ELSE add_items_batch_valid(ValidRecords(Filled(items, r.value), item_type),
                               idx, b, COLLECTIONS[item_type], r.api, DimensionsAfter(r, d))

\* VectorStore.add_items_batch(items, item_type)
add_items_batch(idx, b, a, d, items, item_type) ==
    IF items = <<>> THEN StoreRet(TRUE, <<>>, NoError, idx, a, d)
    ELSE IF b = "down" THEN StoreRet(FALSE, <<>>, Unavailable, idx, a, d)
    ELSE IF TextsToEmbed(items) # <<>>
         THEN add_items_batch_embedded(
                  Svc_batch_embed(TextsToEmbed(items), DEFAULT_BATCH_SIZE, a, <<>>),
                  items, idx, b, d, item_type)
         ELSE add_items_batch_valid(ValidRecords(items, item_type),
                                    idx, b, COLLECTIONS[item_type], a, d)

\* the results one collection adds: similarity = 1 - distance; an exception
\* of the query is swallowed
Hits(q) ==
    IF ~q.ok THEN <<>>
    ELSE [k \in 1..Len(q.rows) |->
             [id |-> q.rows[k].id, text |-> q.rows[k].document,
              metadata |-> q.rows[k].metadata, similarity |-> 100 - q.rows[k].distance]]

\* a search that keeps the results in the order the collections gave them
Ranked_Unsorted(results, limit) == Take(results, limit)

\* results.sort(key=lambda x: x["similarity"], reverse=True); return results[:limit]
Ranked(results, limit) ==
    Take(SortedBy(results, [k \in 1..Len(results) |-> 0 - results[k].similarity]), limit)

\* VectorStore.search_by_embedding(embedding, item_type, limit); item_type
\* "all" stands for None
search_by_embedding(idx, b, embedding, item_type, limit) ==
    IF b = "down" THEN [ok |-> FALSE, value |-> <<>>, err |-> Unavailable]
    ELSE IF item_type = "all"
         THEN [ok |-> TRUE, err |-> NoError,
               value |-> Ranked(Hits(Collection_query(idx[COLLECTIONS[ItemTypes[1]]], b, embedding, limit))
                                \o Hits(Collection_query(idx[COLLECTIONS[ItemTypes[2]]], b, embedding, limit))
                                \o Hits(Collection_query(idx[COLLECTIONS[ItemTypes[3]]], b, embedding, limit)),
                                limit)]
         ELSE [ok |-> TRUE, err |-> NoError,
               value |-> Ranked(Hits(Collection_query(idx[COLLECTIONS[item_type]], b, embedding, limit)),
                                limit)]

\* the filter of find_similar on what search_by_embedding handed back
Filtered(s, threshold, exclude_ids) ==
    LET Keep(result) == result.similarity >= threshold /\ result.id \notin exclude_ids
    IN  IF ~s.ok THEN s ELSE [s EXCEPT !.value = SelectSeq(s.value, Keep)]

\* limit=10 of find_similar
FIND_SIMILAR_LIMIT == 10

\* threshold: float = 0.95, in hundredths
DEFAULT_THRESHOLD == 95

\* VectorStore.find_similar(embedding, item_type, threshold, exclude_ids)
find_similar(idx, b, embedding, item_type, threshold, exclude_ids) ==
    Filtered(search_by_embedding(idx, b, embedding, item_type, FIND_SIMILAR_LIMIT),
             threshold, exclude_ids)

----------------------------------------------------------------------------
(* Writing to the index *)

\* the module whose vector store and service the direct calls go to
Writer == "embedding_tasks"

\* the state a VectorStore call of module m leaves when it handed back r
Stored(m, op, item_type, items, r) ==
    /\ reply' = [op |-> op, item_type |-> item_type, items |-> items,
                 ok |-> r.ok, value |-> r.value, err |-> r.err]
    /\ index' = r.index
    /\ api' = r.api
    /\ dimensions' = [dimensions EXCEPT ![m] = r.d]
    /\ UNCHANGED <<providers, api_key, last, quota, interest, site, seen_limited,
                   backend, seen, cluster_vars>>

\* what a caller passes for one item
Item(id, text, metadata, embedding) ==
    [id |-> id, text |-> text, metadata |-> metadata, embedding |-> embedding]

\* a caller invokes VectorStore.add_item
AddItem(item, item_type) ==
    /\ reply = NoReply
    /\ \E r \in {add_item(index, backend, api, dimensions[Writer], item.id, item.text,
                          item_type, item.metadata, item.embedding)} :
          Stored(Writer, "add_item", item_type, <<item>>, r)

\* a caller invokes VectorStore.add_items_batch
AddItemsBatch(items, item_type) ==
    /\ reply = NoReply
    /\ \E r \in {add_items_batch(index, backend, api, dimensions[Writer], items, item_type)} :
          Stored(Writer, "add_items_batch", item_type, items, r)

\* the longest batch written
MaxBatch == 2

ItemIds == {"i1", "i2"}

\* the items written one by one: with a vector of either dimensionality, or
\* with none, the store then asking the service for it
SingleItems ==
    {Item(id, <<"a">>, meta, e) :
        id \in ItemIds, meta \in {"m1", "m2"},
        e \in {NoVector, Vector(OPENAI_DIMENSIONS, <<1, 0>>), Vector(OPENAI_DIMENSIONS, <<0, 1>>),
               Vector(JINA_DIMENSIONS, <<1, 0>>)}}

\* the items written in batches
BatchItems ==
    {Item(id, <<"a">>, "m2", e) :
        id \in ItemIds,
        e \in {Vector(OPENAI_DIMENSIONS, <<0, 1>>), Vector(JINA_DIMENSIONS, <<1, 0>>)}}
    \cup {Item("i1", <<"a">>, "m1", NoVector)}

\* a deployment whose first provider, Jina, may fail its first request
InitUpsert ==
    /\ InitService
    /\ providers = <<"jina", "openai">>
    /\ api_key = [p \in ProviderNames |-> TRUE]
    /\ api["openai"] = Healthy
    /\ api["jina"].steady = "ok" /\ ~api["jina"].shuffled
    /\ api["jina"].pre \in {<<>>, <<"transient">>}

NextUpsert ==
    \/ \E item \in SingleItems, t \in {"news", "podcast"} : AddItem(item, t)
    \/ \E items \in SeqsUpTo(BatchItems, MaxBatch) : AddItemsBatch(items, "news")
    \/ CollectReply

SpecUpsert == InitUpsert /\ [][NextUpsert]_vars

----------------------------------------------------------------------------
(* C14 *)

\* C14: upsert by id is idempotent: when add_item or add_items_batch writes, with
\* vectors of the collection's dimensionality, ids the collection already
\* holds, the call succeeds, each id is left with exactly one record, holding
\* the new vector and metadata, and the collection's count is unchanged.
C14_UpsertIdempotent ==
    [][(/\ reply = NoReply
        /\ reply'.op \in {"add_item", "add_items_batch"}
        /\ reply'.items # <<>>
        /\ \A j, k \in 1..Len(reply'.items) :
              j # k => reply'.items[j].id # reply'.items[k].id
        /\ \A k \in 1..Len(reply'.items) :
              /\ HasEmbedding(reply'.items[k])
              /\ reply'.items[k].embedding.dims = index[COLLECTIONS[reply'.item_type]].dim
              /\ HasId(index[COLLECTIONS[reply'.item_type]].recs, reply'.items[k].id))
          => /\ reply'.ok
             /\ Collection_count(index'[COLLECTIONS[reply'.item_type]])
                    = Collection_count(index[COLLECTIONS[reply'.item_type]])
             /\ \A k \in 1..Len(reply'.items) :
                   /\ Cardinality({j \in 1..Len(index'[COLLECTIONS[reply'.item_type]].recs) :
                                      index'[COLLECTIONS[reply'.item_type]].recs[j].id
                                          = reply'.items[k].id}) = 1
                   /\ \E j \in 1..Len(index'[COLLECTIONS[reply'.item_type]].recs) :
                         index'[COLLECTIONS[reply'.item_type]].recs[j]
                             = NewRecord(reply'.items[k].id, reply'.items[k].embedding,
                                         reply'.items[k].metadata, reply'.item_type,
                                         reply'.items[k].text)]_vars

\* i1 was written again after i2 had joined the collection: it kept its place
\* and holds the vector and metadata of the last write
C14_Witness ==
    /\ reply.op = "add_item" /\ reply.ok /\ reply.item_type = "news"
    /\ reply.items = <<Item("i1", <<"a">>, "m2", Vector(OPENAI_DIMENSIONS, <<0, 1>>))>>
    /\ Len(index["news_items"].recs) = 2
    /\ index["news_items"].recs[1]
           = NewRecord("i1", Vector(OPENAI_DIMENSIONS, <<0, 1>>), "m2", "news", <<"a">>)
    /\ index["news_items"].recs[2].id = "i2"

----------------------------------------------------------------------------
(* C16 *)

----------------------------------------------------------------------------
(* Duplicate checks and the news run *)

\* threshold: float = 0.95 of agent.check_duplicates and of the task, in hundredths
DUPLICATE_THRESHOLD == 95

DIGEST_TOP_N == 10
PER_SOURCE_CAP == 4

\* an item of the news run after scoring
Scored(id, text, embedding, score) ==
    [id |-> id, text |-> text, embedding |-> embedding, score |-> score]

\* vector_store.find_similar(embedding=item["embedding"], item_type=item_type,
\* threshold=threshold) of agent.check_duplicates
Similar(idx, b, item, item_type, threshold) ==
    find_similar(idx, b, item.embedding, item_type, threshold, {})

\* an except branch that hands back nothing
check_duplicates_Closed(idx, b, items, item_type, threshold) ==
    IF ~USE_SEMANTIC_SCORING THEN items
    ELSE IF \E k \in 1..Len(items) :
                HasEmbedding(items[k]) /\ ~Similar(idx, b, items[k], item_type, threshold).ok
         THEN <<>>
         ELSE LET Unique(item) ==
                      ~HasEmbedding(item)
                          \/ Similar(idx, b, item, item_type, threshold).value = <<>>
              IN  SelectSeq(items, Unique)

\* agent.check_duplicates(items, item_type, threshold): an exception of the
\* store ends the loop and hands back every item
check_duplicates(idx, b, items, item_type, threshold) ==
    IF ~USE_SEMANTIC_SCORING THEN items
    ELSE IF \E k \in 1..Len(items) :
                HasEmbedding(items[k]) /\ ~Similar(idx, b, items[k], item_type, threshold).ok
         THEN items
         ELSE LET Unique(item) ==
                      ~HasEmbedding(item)
                          \/ Similar(idx, b, item, item_type, threshold).value = <<>>
              IN  SelectSeq(items, Unique)

\* the ids find_similar reported for each item checked
Neighbours(idx, b, items, item_type, threshold) ==
    [k \in 1..Len(items) |->
        IF HasEmbedding(items[k]) /\ Similar(idx, b, items[k], item_type, threshold).ok
        THEN Ids(Similar(idx, b, items[k], item_type, threshold).value)
        ELSE <<>>]

\* fresh = [it for it in all_items if it["id"] not in seen]
Fresh(all_items, sn) ==
    LET Unseen(it) == it.id \notin sn
    IN  SelectSeq(all_items, Unseen)

\* fresh.sort(key=lambda x: x["score"], reverse=True) and the picking loop, for
\* items of one source
Picked(fresh) ==
    Take(SortedBy(fresh, [k \in 1..Len(fresh) |-> 0 - fresh[k].score]),
         Min(PER_SOURCE_CAP, DIGEST_TOP_N))

\* items_to_store of agent.store_embeddings
ItemsToStore(items) ==
    LET q == SelectSeq(items, HasEmbedding)
    IN  [k \in 1..Len(q) |-> Item(q[k].id, q[k].text, "m1", q[k].embedding)]

\* the collections after add_items_batch handed back r, its exception swallowed
Kept(r) == r.index

\* agent.store_embeddings(items, item_type)
store_embeddings(idx, b, a, d, items, item_type) ==
    IF ~USE_SEMANTIC_SCORING \/ ItemsToStore(items) = <<>> THEN idx
    ELSE Kept(add_items_batch(idx, b, a, d, ItemsToStore(items), item_type))

IdSet(items) == {items[k].id : k \in 1..Len(items)}

\* agent.run_agent from "Remove already-seen items" to the storing of the
\* picked items
RunAgent(all_items) ==
    /\ reply = NoReply
    /\ \E fresh \in {Fresh(all_items, seen)} :
       \E unique \in {check_duplicates(index, backend, fresh, "news", DUPLICATE_THRESHOLD)} :
       \E picked \in {Picked(unique)} :
          /\ reply' = [op |-> "run_agent", items |-> all_items, fresh |-> fresh,
                       similar |-> Neighbours(index, backend, fresh, "news", DUPLICATE_THRESHOLD),
                       unique |-> unique, picked |-> picked]
          /\ seen' = seen \cup IdSet(picked)
          /\ index' = IF picked = <<>> THEN index
                      ELSE store_embeddings(index, backend, api, dimensions["agent"],
                                            picked, "news")
    /\ UNCHANGED <<providers, api_key, api, dimensions, last, quota, interest, site,
                   seen_limited, backend, cluster_vars>>

\* tasks.embedding_tasks.check_duplicates after get_embedding handed back r
task_checked(r, idx, b, item_type, threshold) ==
    IF ~r.ok THEN [success |-> FALSE, is_duplicate |-> FALSE, similar_items |-> <<>>]
    ELSE IF ~find_similar(idx, b, AsVector(r.value), item_type, threshold, {}).ok
         THEN [success |-> FALSE, is_duplicate |-> FALSE, similar_items |-> <<>>]
         ELSE [success |-> TRUE,
               is_duplicate |->
                   Len(find_similar(idx, b, AsVector(r.value), item_type, threshold, {}).value) > 0,
               similar_items |->
                   Ids(find_similar(idx, b, AsVector(r.value), item_type, threshold, {}).value)]

\* the task check_duplicates(text, item_type, threshold)
TaskCheckDuplicates(text) ==
    /\ reply = NoReply
    /\ \E r \in {Svc_get_embedding(text, 1, api, <<>>, NoError)} :
          /\ reply' = [op |-> "check_duplicates", text |-> text,
                       result |-> task_checked(r, index, backend, "news", DUPLICATE_THRESHOLD)]
          /\ api' = r.api
          /\ dimensions' = [dimensions EXCEPT
                               ![Writer] = DimensionsAfter(r, dimensions[Writer])]
    /\ UNCHANGED <<providers, api_key, last, quota, interest, site, seen_limited,
                   index, backend, seen, cluster_vars>>

\* a caller invokes search_by_embedding(embedding, None, limit)
SearchAll(embedding, limit) ==
    /\ reply = NoReply
    /\ reply' = [op |-> "search", embedding |-> embedding, limit |-> limit,
                 result |-> search_by_embedding(index, backend, embedding, "all", limit)]
    /\ UNCHANGED <<providers, api_key, api, dimensions, last, quota, interest, site,
                   seen_limited, index, backend, seen, cluster_vars>>

\* out/seen.json is deleted, as run_agent tells the user to do to start over
DeleteSeen ==
    /\ reply = NoReply
    /\ seen # {}
    /\ seen' = {}
    /\ UNCHANGED <<providers, api_key, api, dimensions, last, quota, interest, site,
                   seen_limited, index, backend, reply, cluster_vars>>

\* ChromaDB stops or resumes answering: "query_fails" when the requests on a
\* collection fail, "down" when not even the collection can be obtained
BackendChange(b) ==
    /\ reply = NoReply
    /\ b # backend
    /\ backend' = b
    /\ UNCHANGED <<providers, api_key, api, dimensions, last, quota, interest, site,
                   seen_limited, index, seen, reply, cluster_vars>>

\* the scored news items of a run: the second is a near-duplicate of the
\* first with a lower score, the third is unrelated, the fourth has no embedding
NewsItems ==
    {Scored("i1", <<"a">>, Vector(OPENAI_DIMENSIONS, <<1, 0>>), 2),
     Scored("i2", <<"b">>, Vector(OPENAI_DIMENSIONS, <<4, 1>>), 1),
     Scored("i3", <<"c">>, Vector(OPENAI_DIMENSIONS, <<0, 1>>), 2),
     Scored("i2", <<"b">>, NoVector, 1)}

\* the episodes the podcast run stores
PodcastItems ==
    {Item("p1", <<"a">>, "m1", Vector(OPENAI_DIMENSIONS, <<1, 0>>)),
     Item("p2", <<"b">>, "m1", Vector(OPENAI_DIMENSIONS, <<3, 1>>))}

\* the largest limit a search is given
MaxLimit == 2

Queries == {Vector(OPENAI_DIMENSIONS, <<1, 0>>), Vector(OPENAI_DIMENSIONS, <<0, 1>>)}

NextDedup ==
    \/ \E all_items \in SeqsUpTo(NewsItems, MaxBatch) : RunAgent(all_items)
    \/ \E text \in {<<"a">>, <<"b">>} : TaskCheckDuplicates(text)
    \/ \E item \in PodcastItems : AddItemsBatch(<<item>>, "podcast")
    \/ \E q \in Queries, limit \in 1..MaxLimit : SearchAll(q, limit)
    \/ DeleteSeen
    \/ \E b \in {"up", "query_fails", "down"} : BackendChange(b)
    \/ CollectReply

SpecDedup == InitPlain /\ [][NextDedup]_vars

----------------------------------------------------------------------------
(* C15 *)

\* the records of all collections, each named by its item type and position
StoredRecords ==
    UNION {{<<t, k>> : k \in 1..Len(index[COLLECTIONS[t]].recs)} : t \in Range(ItemTypes)}

RecordAt(tk) == index[COLLECTIONS[tk[1]]].recs[tk[2]]

\* C15: with the index answering, a query with no collection returns at most k
\* results in descending similarity; each is a stored record with similarity
\* 1 - distance, and no record left out is more similar than one returned.
C15_SearchAllTopK ==
    (reply.op = "search" /\ backend = "up") =>
        /\ reply.result.ok
        /\ Len(reply.result.value) = Min(reply.limit, Cardinality(StoredRecords))
        /\ \A j \in 1..Len(reply.result.value) :
              /\ \E tk \in StoredRecords :
                    /\ RecordAt(tk).id = reply.result.value[j].id
                    /\ RecordAt(tk).metadata = reply.result.value[j].metadata
                    /\ reply.result.value[j].similarity
                           = 100 - Distance(reply.embedding, RecordAt(tk))
              /\ \A i \in 1..Len(reply.result.value) :
                    i < j => reply.result.value[i].similarity
                                 >= reply.result.value[j].similarity
        /\ \A tk \in StoredRecords :
              (\A j \in 1..Len(reply.result.value) :
                    \/ RecordAt(tk).id # reply.result.value[j].id
                    \/ RecordAt(tk).metadata # reply.result.value[j].metadata)
                 => \A j \in 1..Len(reply.result.value) :
                       100 - Distance(reply.embedding, RecordAt(tk))
                           <= reply.result.value[j].similarity

\* two results were asked for; the news collection answered with similarities
\* 1.0 and 0.97, the podcast collection with 1.0, and both 1.0 came back
C15_Witness ==
    /\ reply.op = "search" /\ backend = "up" /\ reply.limit = 2
    /\ reply.embedding = Vector(OPENAI_DIMENSIONS, <<1, 0>>)
    /\ Len(index["news_items"].recs) >= 2
    /\ Ids(index["news_items"].recs) = <<"i1", "i2">>
    /\ HasId(index["podcasts"].recs, "p1")
    /\ Ids(reply.result.value) = <<"i1", "p1">>
    /\ reply.result.value[2].similarity = 100

----------------------------------------------------------------------------
(* C17 *)

\* C17: an item never counts as its own duplicate: the duplicate check of the
\* news run never reports, for an item it checks, the record stored under
\* that item's own id.
C17_NeverOwnDuplicate ==
    reply.op = "run_agent" =>
        \A k \in 1..Len(reply.fresh) :
            \A j \in 1..Len(reply.similar[k]) : reply.similar[k][j] # reply.fresh[k].id

----------------------------------------------------------------------------
(* C19 *)

\* C19: of two near-duplicate items of one batch (similarity at or above the
\* threshold), the duplicate check admits the higher-scored and drops the
\* lower-scored.
C19_HigherScoredSurvives ==
    reply.op = "run_agent" =>
        \A j, k \in 1..Len(reply.fresh) :
            (/\ HasEmbedding(reply.fresh[j]) /\ HasEmbedding(reply.fresh[k])
             /\ Cosine(reply.fresh[j].embedding, reply.fresh[k].embedding).value
                    >= DUPLICATE_THRESHOLD
             /\ reply.fresh[j].score > reply.fresh[k].score)
               => /\ \E i \in 1..Len(reply.unique) : reply.unique[i] = reply.fresh[j]
                  /\ \A i \in 1..Len(reply.unique) : reply.unique[i] # reply.fresh[k]

----------------------------------------------------------------------------
(* C20 *)

\* C20: deduplication fails open: while the index does not answer, the
\* duplicate check of the news run admits every item it was given and the
\* task reports no duplicate; neither raises.
C20_DedupFailsOpen ==
    backend # "up" =>
        /\ reply.op = "run_agent" => reply.unique = reply.fresh
        /\ reply.op = "check_duplicates" =>
              ~reply.result.is_duplicate /\ reply.result.similar_items = <<>>

\* the index holds i1 and cannot be reached; the run checked i1 again, after
\* seen.json was deleted, and admitted it
C20_Witness ==
    /\ backend = "down"
    /\ reply.op = "run_agent"
    /\ HasId(index["news_items"].recs, "i1")
    /\ Len(reply.fresh) = 2 /\ reply.fresh[1].id = "i1" /\ HasEmbedding(reply.fresh[1])
    /\ reply.unique = reply.fresh

----------------------------------------------------------------------------
(* find_similar on a collection of more records than it asks for *)

\* the ids of the records, in the order they are written
NeighbourIds == <<"n01", "n02", "n03", "n04", "n05", "n06", "n07", "n08", "n09", "n10", "n11">>

\* the next record is written, with one of two vectors close to each other
AddNeighbour(xy) ==
    /\ Len(index["news_items"].recs) < Len(NeighbourIds)
    /\ AddItem(Item(NeighbourIds[Len(index["news_items"].recs) + 1], <<"a">>, "m1",
                    Vector(OPENAI_DIMENSIONS, xy)),
               "news")

\* a caller invokes find_similar(embedding, item_type, threshold, exclude_ids)
FindSimilar(embedding, item_type, threshold, exclude_ids) ==
    /\ reply = NoReply
    /\ reply' = [op |-> "find_similar", embedding |-> embedding, item_type |-> item_type,
                 threshold |-> threshold, exclude_ids |-> exclude_ids,
                 result |-> find_similar(index, backend, embedding, item_type, threshold,
                                         exclude_ids)]
    /\ UNCHANGED <<providers, api_key, api, dimensions, last, quota, interest, site,
                   seen_limited, index, backend, seen, cluster_vars>>

\* the ids written first
FirstIds(n) == {NeighbourIds[k] : k \in 1..n}

NextNeighbours ==
    \/ \E xy \in {<<1, 0>>, <<4, 1>>} : AddNeighbour(xy)
    \/ \E n \in 0..Len(NeighbourIds) :
          FindSimilar(Vector(OPENAI_DIMENSIONS, <<1, 0>>), "news", DEFAULT_THRESHOLD, FirstIds(n))
    \/ CollectReply

SpecNeighbours == InitPlain /\ [][NextNeighbours]_vars

----------------------------------------------------------------------------
(* C18 *)

\* C18: find_similar returns a non-empty list if and only if the collection
\* holds a record that is not excluded and whose similarity is at least the
\* threshold, and it never returns a record below the threshold, whatever the
\* number of stored or excluded records.
C18_DuplicateIffNeighbour ==
    reply.op = "find_similar" =>
        /\ \A j \in 1..Len(reply.result.value) :
              reply.result.value[j].similarity >= reply.threshold
        /\ reply.result.value # <<>>
              <=> \E k \in 1..Len(index[COLLECTIONS[reply.item_type]].recs) :
                     /\ index[COLLECTIONS[reply.item_type]].recs[k].id \notin reply.exclude_ids
                     /\ 100 - Distance(reply.embedding,
                                       index[COLLECTIONS[reply.item_type]].recs[k])
                            >= reply.threshold

----------------------------------------------------------------------------
(* TopicClusterer: k-means, the silhouette search and the confidence *)

\* TopicClusterer.__init__ defaults, the values get_clusterer() constructs with
min_clusters == 2
max_clusters == 10
min_cluster_size == 2

\* the largest batch handed to the clusterer
MaxBatchItems == 3

ArrayError == [type |-> "ValueError", msg |-> <<"inhomogeneous", "shape">>]

RECURSIVE SumTo(_, _)
SumTo(f, n) == IF n = 0 THEN 0 ELSE f[n] + SumTo(f, n - 1)

RECURSIVE Fact(_)
Fact(n) == IF n <= 1 THEN 1 ELSE n * Fact(n - 1)

\* squared euclidean distance of two rows
SqDist(a, b) == (a[1] - b[1]) * (a[1] - b[1]) + (a[2] - b[2]) * (a[2] - b[2])

\* euclidean distance in tenths, rounded down
Root(n) == CHOOSE r \in 0..(10 * n + 1) : r * r <= 100 * n /\ 100 * n < (r + 1) * (r + 1)
Dist(a, b) == Root(SqDist(a, b))

\* the samples that carry label c
Members(labels, c) == {i \in 1..Len(labels) : labels[i] = c}

\* twice the inertia of a labelling, times Fact(n) to stay in the integers:
\* for every sample the mean squared distance to the samples of its cluster
Inertia(X, labels) ==
    SumTo([i \in 1..Len(X) |->
              (Fact(Len(X)) \div Cardinality(Members(labels, labels[i])))
              * SumTo([j \in 1..Len(X) |->
                          IF labels[j] = labels[i] THEN SqDist(X[i], X[j]) ELSE 0], Len(X))],
          Len(X))

\* the labellings k-means can end in: equal rows share a label, and as many
\* clusters are in use as there are distinct rows, up to k
Labellings(X, k) ==
    {[i \in 1..Len(X) |-> f[X[i]]] :
        f \in {g \in [Range(X) -> 0..(k - 1)] :
                  Cardinality(Range(g)) = Min(k, Cardinality(Range(X)))}}

\* the labelling of least inertia among `cands`, `least` being that inertia;
\* random_state=42 fixes which one of several is returned
LeastOf(X, cands, least) == CHOOSE labels \in cands : Inertia(X, labels) = least
Least(vals) == CHOOSE v \in vals : \A w \in vals : v <= w

\* KMeans(n_clusters=k, random_state=42, n_init=10).fit_predict(X), 1 <= k <= len(X)
KMeans_fit_predict(X, k) ==
    LeastOf(X, Labellings(X, k), Least({Inertia(X, labels) : labels \in Labellings(X, k)}))

\* the sum of the distances from sample i to the samples in S
DistSum(X, i, S) == SumTo([j \in 1..Len(X) |-> IF j \in S THEN Dist(X[i], X[j]) ELSE 0], Len(X))

\* a(i): the mean distance to the other samples of its cluster, times Fact(n)
IntraMean(X, labels, i) ==
    (Fact(Len(X)) \div (Cardinality(Members(labels, labels[i])) - 1))
    * DistSum(X, i, Members(labels, labels[i]) \ {i})

\* b(i): the least mean distance to the samples of another cluster, times Fact(n)
NearestMean(X, labels, i) ==
    Least({(Fact(Len(X)) \div Cardinality(Members(labels, c))) * DistSum(X, i, Members(labels, c)) :
              c \in Range(labels) \ {labels[i]}})

\* (b - a) / max(a, b) in thousandths; 0 where both are 0
Coefficient(a, b) == IF Max(a, b) = 0 THEN 0 ELSE ((b - a) * 1000) \div Max(a, b)

\* the silhouette coefficient of sample i: 0 in a cluster of one
SampleSilhouette(X, labels, i) ==
    IF Cardinality(Members(labels, labels[i])) = 1 THEN 0
    ELSE Coefficient(IntraMean(X, labels, i), NearestMean(X, labels, i))

\* sklearn.metrics.silhouette_score(X, labels) in thousandths: a ValueError
\* unless 2 <= number of labels <= n_samples - 1
silhouette_score(X, labels) ==
    IF Cardinality(Range(labels)) < 2 \/ Cardinality(Range(labels)) > Len(X) - 1
    THEN [raised |-> TRUE, score |-> 0]
    ELSE [raised |-> FALSE,
          score |-> SumTo([i \in 1..Len(X) |-> SampleSilhouette(X, labels, i)], Len(X))
                    \div Len(X)]

\* "if score > best_score: best_score = score; best_k = k", and "except: continue"
Improve(trial, k, best) ==
    IF ~trial.raised /\ trial.score > best.score THEN [k |-> k, score |-> trial.score] ELSE best

\* the loop of find_optimal_k from candidate k on
RECURSIVE find_optimal_k_loop(_, _, _, _)
find_optimal_k_loop(X, k, max_k, best) ==
    IF k > max_k THEN best.k
    ELSE find_optimal_k_loop(X, k + 1, max_k,
                             Improve(silhouette_score(X, KMeans_fit_predict(X, k)), k, best))

\* a search that keeps the first candidate
find_optimal_k_First(X) ==
    IF Len(X) < min_clusters + 1 THEN Max(1, Len(X) \div min_cluster_size)
    ELSE min_clusters

\* TopicClusterer.find_optimal_k(embeddings)
find_optimal_k(X) ==
    IF Len(X) < min_clusters + 1 THEN Max(1, Len(X) \div min_cluster_size)
    ELSE IF Min(max_clusters, Len(X) \div min_cluster_size) < min_clusters THEN min_clusters
         ELSE find_optimal_k_loop(X, min_clusters,
                                  Min(max_clusters, Len(X) \div min_cluster_size),
                                  [k |-> min_clusters, score |-> -1000])

\* np.array(embeddings) is a matrix only if every row has the same length
Homogeneous(embeddings) ==
    \A i, j \in 1..Len(embeddings) : embeddings[i].dims = embeddings[j].dims
Rows(embeddings) == [i \in 1..Len(embeddings) |-> embeddings[i].xy]

\* "if n_clusters is None: n_clusters = self.find_optimal_k(...)" and
\* "n_clusters = min(n_clusters, len(embeddings))"; n_clusters is Null or <<k>>
n_clusters_for(X, n_clusters) ==
    Min(IF n_clusters = Null THEN find_optimal_k(X) ELSE n_clusters[1], Len(X))

\* the labels of cluster_embeddings for k clusters
labels_for(X, k) == IF k <= 1 THEN [i \in 1..Len(X) |-> 0] ELSE KMeans_fit_predict(X, k)

\* TopicClusterer.cluster_embeddings(embeddings, n_clusters): the labels, or
\* the exception np.array raises on rows of different length
cluster_embeddings(embeddings, n_clusters) ==
    IF embeddings = <<>> THEN [err |-> NoError, labels |-> <<>>]
    ELSE IF ~Homogeneous(embeddings) THEN [err |-> ArrayError, labels |-> <<>>]
         ELSE [err |-> NoError,
               labels |-> labels_for(Rows(embeddings),
                                     n_clusters_for(Rows(embeddings), n_clusters))]

\* the centroid of the samples in S, up to its length: their sum
Centroid(X, S) ==
    <<SumTo([i \in 1..Len(X) |-> IF i \in S THEN X[i][1] ELSE 0], Len(X)),
      SumTo([i \in 1..Len(X) |-> IF i \in S THEN X[i][2] ELSE 0], Len(X))>>

\* a confidence without the zero-norm test
compute_confidence_NoZeroTest(embedding, centroid) ==
    Max(0, Min(100, (Cosine(Vector(2, embedding), Vector(2, centroid)).value + 100) \div 2))

\* TopicClusterer.compute_confidence(embedding, centroid), in hundredths
compute_confidence(embedding, centroid) ==
    IF Dot(embedding, embedding) = 0 \/ Dot(centroid, centroid) = 0 THEN 0
    ELSE Max(0, Min(100, (Quotient(Dot(embedding, centroid), Dot(embedding, embedding),
                                   Dot(centroid, centroid)) + 100) \div 2))

\* the labels in the order in which the grouping loop first meets them
RECURSIVE FirstSeen(_, _, _)
FirstSeen(labels, i, acc) ==
    IF i > Len(labels) THEN acc
    ELSE FirstSeen(labels, i + 1,
                   IF labels[i] \in Range(acc) THEN acc ELSE Append(acc, labels[i]))

\* the positions of the samples labelled c, in input order
Positions(labels, c) ==
    SelectSeq([i \in 1..Len(labels) |-> i], LAMBDA i : labels[i] = c)

\* str(uuid.uuid4())[:8], the n-th id handed out
generate_cluster_id(n) == <<"uuid", n>>

\* the label the text generator gives to the cluster
generate_cluster_label(cluster_id) == <<"label", cluster_id[2]>>

\* one entry of `clusters`: the j-th group met, its samples at positions pos
ClusterDict(items, X, labels, pos, j, u) ==
    [cluster_id |-> generate_cluster_id(u + j),
     label |-> generate_cluster_label(generate_cluster_id(u + j)),
     item_count |-> Len(pos),
     items |-> [n \in 1..Len(pos) |->
                   [id |-> items[pos[n]],
                    cluster_confidence |->
                        compute_confidence(X[pos[n]], Centroid(X, Range(pos)))]]]

\* the groups of cluster_items before the final sort, `order` being the labels met
Grouped(items, X, labels, order, u) ==
    [j \in 1..Len(order) |-> ClusterDict(items, X, labels, Positions(labels, order[j]), j, u)]

\* a sort that keeps the largest cluster only
BySize_Largest(clusters) ==
    Take(SortedBy(clusters, [j \in 1..Len(clusters) |-> 0 - clusters[j].item_count]), 1)

\* clusters.sort(key=lambda x: x["item_count"], reverse=True)
BySize(clusters) == SortedBy(clusters, [j \in 1..Len(clusters) |-> 0 - clusters[j].item_count])

\* cluster_items, cluster_embeddings having returned r
cluster_items_of(items, embeddings, r, u) ==
    IF r.err # NoError THEN [err |-> r.err, clusters |-> <<>>]
    ELSE [err |-> NoError,
          clusters |-> BySize(Grouped(items, Rows(embeddings), r.labels,
                                      FirstSeen(r.labels, 1, <<>>), u))]

\* a grouping by position in place of k-means
cluster_items_ByPosition(items, embeddings, n_clusters, u) ==
    IF items = <<>> \/ embeddings = <<>> \/ Len(items) # Len(embeddings)
    THEN [err |-> NoError, clusters |-> <<>>]
    ELSE cluster_items_of(items, embeddings,
                          [err |-> NoError,
                           labels |-> (IF u = 0 THEN [i \in 1..Len(items) |-> 0]
                                       ELSE [i \in 1..Len(items) |-> i])], u)

\* TopicClusterer.cluster_items(items, embeddings, n_clusters), u ids having
\* been handed out before
cluster_items(items, embeddings, n_clusters, u) ==
    IF items = <<>> \/ embeddings = <<>> \/ Len(items) # Len(embeddings)
    THEN [err |-> NoError, clusters |-> <<>>]
    ELSE cluster_items_of(items, embeddings, cluster_embeddings(embeddings, n_clusters), u)

----------------------------------------------------------------------------
(* Calls on the clusterer *)

\* the most samples handed to find_optimal_k
MaxSamples == 6

\* the rows of the matrices tried, and the embeddings of the batches tried
SampleRows == {<<0, 0>>, <<1, 0>>, <<0, 2>>}
ClusterPoints == {Vector(OPENAI_DIMENSIONS, xy) : xy \in SampleRows}
                     \cup {Vector(JINA_DIMENSIONS, <<1, 0>>)}
Matrices == SeqsUpTo(SampleRows, MaxSamples)
Batches == SeqsUpTo(ClusterPoints, MaxBatchItems)
MaxUuids == 2 * MaxBatchItems

\* the item dicts of a batch of n items: their ids
ItemDicts(n) == [i \in 1..n |-> i]

\* clusterer.find_optimal_k(X)
FindOptimalK(X) ==
    /\ reply = NoReply
    /\ reply' = [op |-> "find_optimal_k", X |-> X, k |-> find_optimal_k(X)]
    /\ UNCHANGED <<providers, api_key, api, dimensions, last, quota, interest, site,
                   seen_limited, index, backend, seen, cluster_vars>>

\* clusterer.compute_confidence(embedding, centroid)
ComputeConfidence(embedding, centroid) ==
    /\ reply = NoReply
    /\ reply' = [op |-> "compute_confidence", embedding |-> embedding, centroid |-> centroid,
                 value |-> compute_confidence(embedding, centroid)]
    /\ UNCHANGED <<providers, api_key, api, dimensions, last, quota, interest, site,
                   seen_limited, index, backend, seen, cluster_vars>>

NextSearch ==
    \/ \E X \in Matrices : FindOptimalK(X)
    \/ \E embedding \in Coords \X Coords, centroid \in Coords \X Coords :
          ComputeConfidence(embedding, centroid)
    \/ CollectReply

SpecSearch == InitPlain /\ [][NextSearch]_vars

\* the state a run of cluster_items leaves
Clustered(items, embeddings, n_clusters, again, r) ==
    /\ reply' = [op |-> "cluster_items", items |-> items, embeddings |-> embeddings,
                 n_clusters |-> n_clusters, again |-> again, err |-> r.err,
                 clusters |-> r.clusters]
    /\ uuids' = uuids + Len(r.clusters)
    /\ UNCHANGED <<providers, api_key, api, dimensions, last, quota, interest, site,
                   seen_limited, index, backend, seen, db, threads>>

\* clusterer.cluster_items(items, embeddings, n_clusters)
ClusterItems(items, embeddings, n_clusters) ==
    /\ reply = NoReply
    /\ uuids + Len(embeddings) <= MaxUuids
    /\ \E r \in {cluster_items(items, embeddings, n_clusters, uuids)} :
          Clustered(items, embeddings, n_clusters, FALSE, r)

\* the same call once more, on the same items and vectors
Recluster ==
    /\ reply # NoReply /\ reply.op = "cluster_items"
    /\ uuids + Len(reply.embeddings) <= MaxUuids
    /\ \E r \in {cluster_items(reply.items, reply.embeddings, reply.n_clusters, uuids)} :
          Clustered(reply.items, reply.embeddings, reply.n_clusters, TRUE, r)

\* the n_clusters callers pass: None or a number
SuppliedK == {Null} \cup {<<k>> : k \in 1..(MaxBatchItems + 1)}

NextCluster ==
    \/ \E embeddings \in Batches, n \in 0..MaxBatchItems, n_clusters \in SuppliedK :
          ClusterItems(ItemDicts(n), embeddings, n_clusters)
    \/ Recluster
    \/ CollectReply

SpecCluster == InitPlain /\ [][NextCluster]_vars

----------------------------------------------------------------------------
(* C21 *)

\* the candidates of the search over n samples, and the silhouette of one
CandidateKs(n) == min_clusters..Min(max_clusters, n \div min_cluster_size)
ScoreOf(X, k) == silhouette_score(X, KMeans_fit_predict(X, k))

\* C21: without a supplied k, find_optimal_k on n vectors returns
\* max(1, n div min_cluster_size) if n < min_clusters + 1, returns min_clusters
\* if the candidate range is empty, and otherwise returns a k of the range
\* whose silhouette score no candidate of the range exceeds.
C21_OptimalK ==
    (reply # NoReply /\ reply.op = "find_optimal_k") =>
        LET n == Len(reply.X)
        IN  IF n < min_clusters + 1 THEN reply.k = Max(1, n \div min_cluster_size)
            ELSE IF CandidateKs(n) = {} THEN reply.k = min_clusters
                 ELSE /\ reply.k \in CandidateKs(n)
                      /\ \A k \in CandidateKs(n) :
                            ~ScoreOf(reply.X, k).raised =>
                                /\ ~ScoreOf(reply.X, reply.k).raised
                                /\ ScoreOf(reply.X, reply.k).score >= ScoreOf(reply.X, k).score

\* a search over two candidates that settled on the second
C21_Witness ==
    /\ reply # NoReply /\ reply.op = "find_optimal_k"
    /\ Cardinality(CandidateKs(Len(reply.X))) >= 2
    /\ reply.k > min_clusters
    /\ ScoreOf(reply.X, reply.k).score > ScoreOf(reply.X, min_clusters).score

----------------------------------------------------------------------------
(* tasks/clustering_tasks.py: cluster_digest on the relational tables *)

\* the fewest items and the fewest embeddings cluster_digest goes on with
MIN_DIGEST_ITEMS == 3
MIN_EMBEDDINGS == 3

\* the most items of a digest
MaxDigestItems == 4

NotFound == <<"Digest", "not", "found">>
NoItems == <<"No", "items", "found", "in", "digest">>
NotEnoughItems == <<"Not", "enough", "items">>
NotEnoughEmbeddings == <<"Not", "enough", "embeddings", "for", "clustering">>
DatabaseError == [type |-> "OperationalError", msg |-> <<"database", "is", "locked">>]

\* an Item row as save_digest_to_db writes it: no cluster yet
ItemRow(digest_id, text) ==
    [digest_id |-> digest_id, type |-> "news", text |-> text,
     cluster_id |-> Null, cluster_label |-> Null, cluster_confidence |-> Null]

\* db.query(Item).filter(Item.digest_id == digest_id).all(): the ids of the rows
ItemsOfDigest(tables, digest_id) ==
    SelectSeq([i \in 1..Len(tables.items) |-> i],
              LAMBDA i : tables.items[i].digest_id = digest_id)

\* VectorStore.get_item(item_id, item_type)["embedding"] inside the try of
\* phase 1: the stored vector, or nothing when the record is absent or the
\* request raised
get_item(idx, b, item_id, item_type) ==
    IF b # "up" \/ ~HasId(idx[COLLECTIONS[item_type]].recs, item_id) THEN NoVector
    ELSE idx[COLLECTIONS[item_type]].recs[
             CHOOSE k \in 1..Len(idx[COLLECTIONS[item_type]].recs) :
                 idx[COLLECTIONS[item_type]].recs[k].id = item_id].embedding

\* phase 1: the items whose embedding ChromaDB returned, with it
Retrieved(tables, idx, b, ids) ==
    SelectSeq([j \in 1..Len(ids) |->
                  [id |-> ids[j],
                   embedding |-> get_item(idx, b, ids[j], tables.items[ids[j]].type)]],
              LAMBDA e : e.embedding # NoVector)

\* items_missing_embeddings
Missing(tables, idx, b, ids) ==
    SelectSeq(ids, LAMBDA i : get_item(idx, b, i, tables.items[i].type) = NoVector)

\* phase 2: the items for which batch_embed returned a non-empty embedding;
\* an exception of the service is caught and leaves none
Regenerated(g, missing) ==
    IF ~g.ok THEN <<>>
    ELSE SelectSeq([j \in 1..Len(missing) |->
                       [id |-> missing[j], embedding |-> AsVector(g.value[j])]],
                   LAMBDA e : e.embedding # NoVector)

\* what cluster_digest returns and leaves: the error of the result dict (Null
\* on success), the clusters of the run, the tables, the remote services, the
\* service's dimensions, and what the run did on the way
DigestRet(error, clusters, tables, g, d, usable, kmeans) ==
    [raised |-> FALSE, error |-> error, clusters |-> clusters, db |-> tables,
     api |-> g.api, d |-> DimensionsAfter(g, d), usable |-> usable, kmeans |-> kmeans]

\* the TopicCluster row of a cluster
ClusterRow(digest_id, c) ==
    [cluster_id |-> c.cluster_id, digest_id |-> digest_id, label |-> c.label,
     item_count |-> c.item_count]

\* the cluster of the run that holds item i, if any
Holding(clusters, i) ==
    {<<j, n>> \in UNION {{<<j, n>> : n \in 1..Len(clusters[j].items)} : j \in 1..Len(clusters)} :
        clusters[j].items[n].id = i}

\* the row of item i after "item.cluster_id = ...; item.cluster_label = ...;
\* item.cluster_confidence = ..." for the cluster at jn
Assigned(row, clusters, jn) ==
    [row EXCEPT !.cluster_id = clusters[jn[1]].cluster_id,
                !.cluster_label = clusters[jn[1]].label,
                !.cluster_confidence = clusters[jn[1]].items[jn[2]].cluster_confidence]

\* the session after the delete of the digest's clusters, the added rows and
\* the updated items
Written(tables, digest_id, clusters) ==
    [tables EXCEPT
        !.clusters = SelectSeq(tables.clusters, LAMBDA row : row.digest_id # digest_id)
                     \o [j \in 1..Len(clusters) |-> ClusterRow(digest_id, clusters[j])],
        !.items = [i \in 1..Len(tables.items) |->
                      IF Holding(clusters, i) = {} THEN tables.items[i]
                      ELSE Assigned(tables.items[i], clusters,
                                    CHOOSE jn \in Holding(clusters, i) : TRUE)]]

\* a write phase whose failure leaves the deletes of the session in place
store_clusters_NoRollback(tables, digest_id, clusters, fault) ==
    IF fault = "none" THEN [err |-> NoError, db |-> Written(tables, digest_id, clusters)]
    ELSE [err |-> DatabaseError, db |-> Written(tables, digest_id, <<>>)]

\* lines 143-167 and the except branch: the session is committed, or an
\* exception of the database ("write": in a delete, add or query; "commit":
\* in the commit) is followed by db.rollback()
store_clusters(tables, digest_id, clusters, fault) ==
    IF fault = "none" THEN [err |-> NoError, db |-> Written(tables, digest_id, clusters)]
    ELSE [err |-> DatabaseError, db |-> tables]

\* whether cluster_embeddings reaches its KMeans call
RunsKMeans(embeddings, n_clusters) ==
    /\ embeddings # <<>> /\ Homogeneous(embeddings)
    /\ n_clusters_for(Rows(embeddings), n_clusters) > 1

\* cluster_digest from the clustering on, r being what cluster_items returned
\* or raised and w the outcome of the write phase
cluster_digest_stored(tables, r, w, g, d, usable, kmeans) ==
    IF r.err # NoError THEN DigestRet(r.err.msg, <<>>, tables, g, d, usable, kmeans)
    ELSE IF w.err # NoError THEN DigestRet(w.err.msg, <<>>, w.db, g, d, usable, kmeans)
         ELSE DigestRet(Null, r.clusters, w.db, g, d, usable, kmeans)

cluster_digest_clustered(tables, digest_id, r, g, d, usable, kmeans, fault) ==
    cluster_digest_stored(tables, r, store_clusters(tables, digest_id, r.clusters, fault),
                          g, d, usable, kmeans)

\* "if len(embeddings) < 3: return error"
EnoughEmbeddings(n) == n >= MIN_EMBEDDINGS

\* cluster_digest after phase 2, `usable` being the items with an embedding
cluster_digest_embedded(tables, digest_id, n_clusters, usable, g, d, u, fault) ==
    IF ~EnoughEmbeddings(Len(usable))
    THEN DigestRet(NotEnoughEmbeddings, <<>>, tables, g, d, Len(usable), FALSE)
    ELSE cluster_digest_clustered(
             tables, digest_id,
             cluster_items([j \in 1..Len(usable) |-> usable[j].id],
                           [j \in 1..Len(usable) |-> usable[j].embedding], n_clusters, u),
             g, d, Len(usable),
             RunsKMeans([j \in 1..Len(usable) |-> usable[j].embedding], n_clusters), fault)

\* cluster_digest after phase 1
cluster_digest_phase2(tables, idx, b, digest_id, n_clusters, ids, missing, g, d, u, fault) ==
    cluster_digest_embedded(tables, digest_id, n_clusters,
                            Retrieved(tables, idx, b, ids) \o Regenerated(g, missing),
                            g, d, u, fault)

\* the texts handed to batch_embed
MissingTexts(tables, missing) == [j \in 1..Len(missing) |-> tables.items[missing[j]].text]

cluster_digest_items(tables, idx, b, a, digest_id, n_clusters, ids, missing, d, u, fault) ==
    cluster_digest_phase2(tables, idx, b, digest_id, n_clusters, ids, missing,
                          Svc_batch_embed(MissingTexts(tables, missing), DEFAULT_BATCH_SIZE,
                                          a, <<>>),
                          d, u, fault)

\* no call of the embedding service
NoCallMade(a) == SvcRet(TRUE, <<>>, "none", NoError, a, <<>>)

\* tasks.clustering_tasks.cluster_digest(digest_id, n_clusters)
cluster_digest(tables, idx, b, a, digest_id, n_clusters, d, u, fault) ==
    IF digest_id \notin tables.digests
    THEN DigestRet(NotFound, <<>>, tables, NoCallMade(a), d, 0, FALSE)
    ELSE IF ItemsOfDigest(tables, digest_id) = <<>>
    THEN DigestRet(NoItems, <<>>, tables, NoCallMade(a), d, 0, FALSE)
    ELSE IF Len(ItemsOfDigest(tables, digest_id)) < MIN_DIGEST_ITEMS
    THEN DigestRet(NotEnoughItems, <<>>, tables, NoCallMade(a), d, 0, FALSE)
    ELSE cluster_digest_items(tables, idx, b, a, digest_id, n_clusters,
                              ItemsOfDigest(tables, digest_id),
                              Missing(tables, idx, b, ItemsOfDigest(tables, digest_id)),
                              d, u, fault)

\* the texts of the items of a digest
DigestTexts == {<<"a">>, <<"b">>}
DigestItemLists == SeqsUpTo(DigestTexts, MaxDigestItems)

\* the digest the agent saves, and one that does not exist
SavedDigest == "d1"
DigestIds == {SavedDigest, "d2"}

\* the record store_embeddings wrote for item i while the provider of
\* dimensionality dims was serving
StoredEmbedding(i, text, dims) ==
    NewRecord(i, Vector(dims, Direction(text)), "m1", "news", text)

\* the end of run_agent: store_embeddings wrote the embeddings of the first
\* `stored` items, then save_digest_to_db wrote the digest and its items
SaveDigest(texts, stored, dims) ==
    /\ reply = NoReply
    /\ db.digests = {}
    /\ stored <= Len(texts)
    /\ db' = [digests |-> {SavedDigest},
              items |-> [i \in 1..Len(texts) |-> ItemRow(SavedDigest, texts[i])],
              clusters |-> <<>>]
    /\ index' = [index EXCEPT ![COLLECTIONS["news"]] =
                    [dim |-> IF stored = 0 THEN 0 ELSE dims,
                     recs |-> [i \in 1..stored |-> StoredEmbedding(i, texts[i], dims)]]]
    /\ UNCHANGED <<providers, api_key, api, dimensions, last, quota, interest, site,
                   seen_limited, backend, seen, reply, uuids, threads>>

\* the state a run of cluster_digest leaves
DigestClustered(digest_id, fault, r) ==
    /\ reply' = [op |-> "cluster_digest", digest_id |-> digest_id, fault |-> fault,
                 raised |-> r.raised, error |-> r.error, clusters |-> r.clusters,
                 usable |-> r.usable, kmeans |-> r.kmeans, before |-> db]
    /\ db' = r.db
    /\ api' = r.api
    /\ dimensions' = [dimensions EXCEPT !["clustering"] = r.d]
    /\ uuids' = uuids + Len(r.clusters)
    /\ UNCHANGED <<providers, api_key, last, quota, interest, site, seen_limited, index,
                   backend, seen, threads>>

\* cluster_latest_digest() of the agent, or a re-clustering request of the web
\* application; `fault` is what the database does during the write phase
ClusterDigest(digest_id, fault) ==
    /\ reply = NoReply
    /\ uuids + Len(db.items) <= MaxUuids
    /\ \E r \in {cluster_digest(db, index, backend, api, digest_id, Null,
                                dimensions["clustering"], uuids, fault)} :
          DigestClustered(digest_id, fault, r)

\* a provider starts or stops answering with its rate-limit error
ServiceChange(p, outcome) ==
    /\ reply = NoReply
    /\ api[p].steady # outcome
    /\ api' = [api EXCEPT ![p].steady = outcome]
    /\ UNCHANGED <<providers, api_key, dimensions, last, quota, interest, site, seen_limited,
                   index, backend, seen, reply, cluster_vars>>

NextDigest ==
    \/ \E texts \in DigestItemLists, stored \in 0..MaxDigestItems,
          dims \in {OPENAI_DIMENSIONS, JINA_DIMENSIONS} : SaveDigest(texts, stored, dims)
    \/ \E digest_id \in DigestIds, fault \in {"none", "write", "commit"} :
          ClusterDigest(digest_id, fault)
    \/ \E p \in ProviderNames, outcome \in {"ok", "rate_limit"} : ServiceChange(p, outcome)
    \/ \E b \in {"up", "down"} : BackendChange(b)
    \/ CollectReply

SpecDigest == InitPlain /\ [][NextDigest]_vars

----------------------------------------------------------------------------
(* C22 *)

\* the last call was a run of cluster_digest that got as far as phase 2
PastPhase2 ==
    /\ reply # NoReply /\ reply.op = "cluster_digest"
    /\ reply.digest_id \in reply.before.digests
    /\ Len(ItemsOfDigest(reply.before, reply.digest_id)) >= MIN_DIGEST_ITEMS

\* C22: whenever fewer than min_clusters * min_cluster_size items have a usable
\* embedding after the regeneration of the missing ones, cluster_digest fails
\* with the insufficient-data error and k-means is not run.
C22_InsufficientData ==
    (PastPhase2 /\ reply.usable < min_clusters * min_cluster_size) =>
        (reply.error = NotEnoughEmbeddings /\ ~reply.kmeans)

----------------------------------------------------------------------------
(* C23 *)

\* the last call was a successful run of cluster_digest
RunSucceeded == reply # NoReply /\ reply.op = "cluster_digest" /\ reply.error = Null

\* C23: after a successful cluster_digest(d) the stored clusters of d are
\* exactly the clusters of that run, and every item of d that carries a
\* cluster_id carries the id and the label of one of them: nothing of an
\* earlier run is kept.
C23_ReclusterReplaces ==
    RunSucceeded =>
        /\ {row \in Range(db.clusters) : row.digest_id = reply.digest_id}
               = {ClusterRow(reply.digest_id, c) : c \in Range(reply.clusters)}
        /\ \A i \in Range(ItemsOfDigest(db, reply.digest_id)) :
              db.items[i].cluster_id # Null =>
                  \E c \in Range(reply.clusters) :
                      /\ db.items[i].cluster_id = c.cluster_id
                      /\ db.items[i].cluster_label = c.label

----------------------------------------------------------------------------
(* C24 *)

\* the cosine similarity of two rows, in hundredths
RowCosine(a, b) == Cosine(Vector(OPENAI_DIMENSIONS, a), Vector(OPENAI_DIMENSIONS, b)).value

\* C24: the confidence of an item vector and a centroid is (sim + 1) / 2
\* clamped to [0, 1], sim being their cosine similarity, so it lies in [0, 1];
\* it is 0 when either vector has zero norm.
C24_ConfidenceRange ==
    (reply # NoReply /\ reply.op = "compute_confidence") =>
        /\ reply.value \in 0..100
        /\ IF reply.embedding = <<0, 0>> \/ reply.centroid = <<0, 0>>
           THEN reply.value = 0
           ELSE reply.value =
                    Max(0, Min(100, (RowCosine(reply.embedding, reply.centroid) + 100) \div 2))

\* an item vector scored against a centroid of zero norm
C24_Witness ==
    /\ reply # NoReply /\ reply.op = "compute_confidence"
    /\ reply.embedding # <<0, 0>> /\ reply.centroid = <<0, 0>>
    /\ reply.value = 0

----------------------------------------------------------------------------
(* C25 *)

\* items i and j are in one cluster
Together(clusters, i, j) ==
    \E c \in Range(clusters) :
        /\ \E n \in 1..Len(c.items) : c.items[n].id = i
        /\ \E n \in 1..Len(c.items) : c.items[n].id = j

----------------------------------------------------------------------------
(* C26 *)

\* C26: cluster_digest returns an error result instead of raising, and
\* whenever it returns an error the stored clusters and the cluster fields of
\* the items are exactly what they were before the call.
C26_FailureLeavesTables ==
    (reply # NoReply /\ reply.op = "cluster_digest") =>
        /\ ~reply.raised
        /\ reply.error # Null =>
              /\ db.clusters = reply.before.clusters
              /\ db.items = reply.before.items

\* a re-clustering of a clustered digest that got as far as the write phase
\* and failed there
C26_Witness ==
    /\ reply # NoReply /\ reply.op = "cluster_digest"
    /\ reply.before.clusters # <<>>
    /\ reply.usable >= MIN_EMBEDDINGS
    /\ reply.fault = "commit"
    /\ reply.error = DatabaseError.msg
    /\ db = reply.before

----------------------------------------------------------------------------
(* The interest cache under threads: agent.run_agent started twice in one
   process (web/app.py, orchestration/server.py) shares one SemanticScorer *)

\* thread t evaluates "if self._interest_embedding is None"
CheckCache(t) ==
    /\ threads[t].pc = "idle"
    /\ threads' = [threads EXCEPT ![t].pc = IF interest[Caller] = None THEN "generate"
                                            ELSE "return"]
    /\ UNCHANGED <<providers, api_key, api, dimensions, last, quota, interest, site,
                   seen_limited, index, backend, seen, reply, db, uuids>>

\* the state thread t leaves after generate_interest_embedding() ended as h:
\* the assignment to self._interest_embedding, or the exception leaving the property
Generated(t, h) ==
    /\ api' = h.a
    /\ dimensions' = [dimensions EXCEPT ![Caller] = h.d]
    /\ interest' = IF Raised(h) THEN interest ELSE [interest EXCEPT ![Caller] = h.intr]
    /\ threads' = [threads EXCEPT ![t].pc = IF Raised(h) THEN "idle" ELSE "return"]
    /\ UNCHANGED <<providers, api_key, last, quota, site, seen_limited, index, backend,
                   seen, reply, db, uuids>>

\* thread t runs "self._interest_embedding = self.generate_interest_embedding()"
GenerateInterest(t) ==
    /\ threads[t].pc = "generate"
    /\ \E h \in {generate_interest_embedding(api, <<>>, dimensions[Caller])} : Generated(t, h)

\* thread t runs "return self._interest_embedding"
ReturnInterest(t) ==
    /\ threads[t].pc = "return"
    /\ threads' = [threads EXCEPT ![t] = [pc |-> "idle", got |-> interest[Caller]]]
    /\ UNCHANGED <<providers, api_key, api, dimensions, last, quota, interest, site,
                   seen_limited, index, backend, seen, reply, db, uuids>>

NextThreads ==
    \/ \E t \in Threads : CheckCache(t)
    \/ \E t \in Threads : GenerateInterest(t)
    \/ \E t \in Threads : ReturnInterest(t)

SpecThreads == InitScore /\ [][NextThreads]_vars

----------------------------------------------------------------------------
(* C27 *)

\* the property has returned a vector to some thread
Returned == \E t \in Threads : threads[t].got # None

\* a thread makes the embedding call of generate_interest_embedding
EmbeddingCall == \E t \in Threads : threads[t].pc = "generate" /\ threads'[t].pc # "generate"

\* C27: once interest_embedding has returned a vector to any caller, every
\* later read, from any thread and under any interleaving of concurrent first
\* accesses, returns that same vector and no further embedding call is made.
C27_CacheImmutable ==
    [][Returned =>
          /\ ~EmbeddingCall
          /\ \A t, s \in Threads :
                (threads[s].got # None /\ threads'[t].got # None) =>
                    threads'[t].got = threads[s].got]_vars

----------------------------------------------------------------------------
(* C28 *)

\* C28: every cluster returned by cluster_items contains at least
\* min_cluster_size items, for every batch size and both for an auto-selected
\* and a supplied k.
C28_MinClusterSize ==
    (reply # NoReply /\ reply.op = "cluster_items") =>
        \A j \in 1..Len(reply.clusters) : Len(reply.clusters[j].items) >= min_cluster_size

----------------------------------------------------------------------------
(* C29 *)

\* C29: whenever score_item computes a cosine similarity, the cached interest
\* vector and the item vector have the same dimensionality (np.dot raises its
\* ValueError otherwise), also when the cascade served the interest phrases
\* from one provider and a later item from a provider of another dimensionality.
C29_SameDimensionality ==
    (site # NoSite /\ site.op \in {"score_item", "score_items_batch"}) =>
        site.err # ShapeMismatch

----------------------------------------------------------------------------
(* C30 *)

\* the k of a run: the one supplied, or the one find_optimal_k selects
KOf(embeddings, n_clusters) ==
    IF n_clusters = Null THEN find_optimal_k(Rows(embeddings)) ELSE n_clusters[1]

\* C30: for non-empty inputs of equal length the clusters cluster_items
\* returns partition the batch: every input item is in exactly one cluster, no
\* cluster is empty, each item_count is the number of items of its cluster, so
\* the counts sum to n, and there are at most min(k, n) clusters.
C30_Partition ==
    (/\ reply # NoReply /\ reply.op = "cluster_items" /\ reply.err = NoError
     /\ reply.items # <<>> /\ Len(reply.items) = Len(reply.embeddings)) =>
        /\ \A i \in Range(reply.items) : Cardinality(Holding(reply.clusters, i)) = 1
        /\ \A j \in 1..Len(reply.clusters) :
              /\ reply.clusters[j].items # <<>>
              /\ reply.clusters[j].item_count = Len(reply.clusters[j].items)
              /\ \A n \in 1..Len(reply.clusters[j].items) :
                    reply.clusters[j].items[n].id \in Range(reply.items)
        /\ SumTo([j \in 1..Len(reply.clusters) |-> reply.clusters[j].item_count],
                 Len(reply.clusters)) = Len(reply.items)
        /\ Len(reply.clusters) <= Min(KOf(reply.embeddings, reply.n_clusters), Len(reply.items))

\* a batch that k-means split into a cluster of several items and a smaller one
C30_Witness ==
    /\ reply # NoReply /\ reply.op = "cluster_items" /\ reply.err = NoError
    /\ Len(reply.items) = Len(reply.embeddings)
    /\ Len(reply.clusters) >= 2
    /\ reply.clusters[1].item_count > reply.clusters[2].item_count

====
